---------------------------- MODULE Spec2Model ----------------------------
(***************************************************************************)
(* A model of the celect query engine: validity bitmaps, columnar batches, *)
(* the parallel CSV scanner, the Filter / Projection / Limit / Aggregate   *)
(* operators, the logical planner, the rule-based optimizer and the        *)
(* push-based pipeline executor.                                           *)
(*                                                                         *)
(* Values are records [t, v]: t is the variant of execution::Value, v an   *)
(* integer payload (Boolean: 0/1, Varchar: the rank of the string in       *)
(* lexicographic order, Float: a float with an integral value, Null: 0).   *)
(***************************************************************************)
EXTENDS Integers, Sequences, FiniteSets, TLC

(***************************************************************************)
(* Bounds of the model.                                                    *)
(***************************************************************************)
\* Bitmap::BITS_PER_WORD (64 in bitmap.rs), scaled down so that small
\* bitmaps span several words.
BITS_PER_WORD == 2
\* DataChunk::STANDARD_VECTOR_SIZE (2048 in data_chunk.rs), scaled down so
\* that small files span several batches.
STANDARD_VECTOR_SIZE == 2
\* spawn_workers' 1_000_000 byte threshold below which one worker is used,
\* scaled down to the size of the model's files.
PARALLEL_FILE_SIZE == 6
\* the largest value available_parallelism() takes
MaxWorkers == 3
\* the number of lines after the header in a scanned file
MaxScanLines == 4
\* the number of data rows of a queried file with arbitrary cells
MaxRows == 3
\* the number of data rows of the long queried files
MaxLongRows == 11
\* the physical rows of one batch fed to a Limit operator, and of all of them
MaxBatch == 2
MaxFed == 5
\* the largest LIMIT and the largest OFFSET of a Limit operator under test
MaxLimit == 3
MaxOffset == 2
\* the rows of one batch fed to an Aggregate operator, and the batches fed
MaxBatchLen == 5
MaxBatches == 2

None == [t |-> "None"]
Some(x) == [t |-> "Some", v |-> x]
IsSome(o) == o.t = "Some"

Min(a, b) == IF a <= b THEN a ELSE b
Max(a, b) == IF a >= b THEN a ELSE b

RECURSIVE Pow2(_)
Pow2(n) == IF n = 0 THEN 1 ELSE 2 * Pow2(n - 1)

RECURSIVE SumSeq(_)
SumSeq(s) == IF s = <<>> THEN 0 ELSE Head(s) + SumSeq(Tail(s))

(***************************************************************************)
(* execution::Value                                                        *)
(***************************************************************************)
VInteger(i) == [t |-> "Integer", v |-> i]
VFloat(f) == [t |-> "Float", v |-> f]
VBoolean(b) == [t |-> "Boolean", v |-> IF b THEN 1 ELSE 0]
VVarchar(s) == [t |-> "Varchar", v |-> s]
VNull == [t |-> "Null", v |-> 0]

(***************************************************************************)
(* execution::bitmap::Bitmap: words of BITS_PER_WORD bits and a length.    *)
(***************************************************************************)
WORD_MAX == Pow2(BITS_PER_WORD) - 1

RECURSIVE BitAnd(_, _)
BitAnd(a, b) ==
    IF a = 0 \/ b = 0 THEN 0
    ELSE (a % 2) * (b % 2) + 2 * BitAnd(a \div 2, b \div 2)

NumWords(len) == (len + BITS_PER_WORD - 1) \div BITS_PER_WORD

BitmapNew(len) == [words |-> [i \in 1..NumWords(len) |-> WORD_MAX], len |-> len]

BitmapNewAllNull(len) == [words |-> [i \in 1..NumWords(len) |-> 0], len |-> len]

\* (word_index, bit_index); words are 1-based in the model
WordIndex(index) == index \div BITS_PER_WORD + 1
BitIndex(index) == index % BITS_PER_WORD

IsValid(bm, index) ==
    (bm.words[WordIndex(index)] \div Pow2(BitIndex(index))) % 2 = 1

SetValid(bm, index) ==
    IF IsValid(bm, index) THEN bm
    ELSE [bm EXCEPT !.words[WordIndex(index)] = @ + Pow2(BitIndex(index))]

SetNull(bm, index) ==
    IF IsValid(bm, index)
    THEN [bm EXCEPT !.words[WordIndex(index)] = @ - Pow2(BitIndex(index))]
    ELSE bm

AllValid(bm) ==
    LET full_words == bm.len \div BITS_PER_WORD
        remaining_bits == bm.len % BITS_PER_WORD
        mask == Pow2(remaining_bits) - 1
    IN  /\ \A i \in 1..full_words : bm.words[i] = WORD_MAX
        /\ remaining_bits > 0 => BitAnd(bm.words[full_words + 1], mask) = mask

BitmapClear(bm) == [bm EXCEPT !.words = [i \in 1..Len(bm.words) |-> 0]]

\* new words are all ones; existing words are kept as they are
BitmapResize(bm, new_len) ==
    LET new_num_words == NumWords(new_len)
    IN  [words |-> IF new_num_words > Len(bm.words)
                   THEN bm.words \o [i \in 1..(new_num_words - Len(bm.words)) |-> WORD_MAX]
                   ELSE bm.words,
         len |-> new_len]

\* Kernighan's loop: w &= w - 1 once per set bit
RECURSIVE KernighanCount(_)
KernighanCount(w) == IF w = 0 THEN 0 ELSE 1 + KernighanCount(BitAnd(w, w - 1))

CountWord(word) ==
    IF word = WORD_MAX THEN BITS_PER_WORD
    ELSE IF word = 0 THEN 0
    ELSE KernighanCount(word)

\* count_valid as it would be with no NULL among the first count bits
CountAll(bm, count) == count

CountValid(bm, count) ==
    IF count = 0 THEN 0
    ELSE IF AllValid(bm) THEN count
    ELSE LET full_words == count \div BITS_PER_WORD
             remaining_bits == count % BITS_PER_WORD
             mask == Pow2(remaining_bits) - 1
             masked_word == BitAnd(bm.words[full_words + 1], mask)
         IN  SumSeq([i \in 1..full_words |-> CountWord(bm.words[i])])
             + (IF remaining_bits > 0
                THEN (IF masked_word = mask THEN remaining_bits
                      ELSE IF masked_word # 0 THEN KernighanCount(masked_word)
                      ELSE 0)
                ELSE 0)

(***************************************************************************)
(* execution::data_chunk::Vector: a data array and its validity bitmap.    *)
(* ty is the enum variant; a Null column is stored as an Integer vector.   *)
(***************************************************************************)
VectorNew(column_type) ==
    [ty |-> IF column_type = "Null" THEN "Integer" ELSE column_type,
     data |-> <<>>,
     validity |-> BitmapNew(0)]

VectorLen(vec) == Len(vec.data)

\* Option<Value>: None when the index is out of bounds
VectorGet(vec, index) ==
    IF index >= Len(vec.data) THEN None
    ELSE IF IsValid(vec.validity, index)
         THEN Some([t |-> vec.ty, v |-> vec.data[index + 1]])
         ELSE Some(VNull)

\* the vector's variant and the value's variant match in every push the
\* operators make; the panic arm is not reachable from them
VectorPush(vec, value) ==
    LET data == Append(vec.data, IF value.t = "Null" THEN 0 ELSE value.v)
        index == Len(data) - 1
        resized == BitmapResize(vec.validity, Len(data))
    IN  [vec EXCEPT !.data = data,
                    !.validity = IF value.t = "Null" THEN SetNull(resized, index)
                                 ELSE SetValid(resized, index)]

VectorClear(vec) ==
    [vec EXCEPT !.data = <<>>, !.validity = BitmapResize(vec.validity, 0)]

(***************************************************************************)
(* execution::data_chunk::DataChunk.  selection is None or Some(indices),  *)
(* the indices being 0-based physical row positions.                       *)
(***************************************************************************)
ChunkNew(column_types, capacity) ==
    [columns |-> [i \in 1..Len(column_types) |-> VectorNew(column_types[i])],
     count |-> 0,
     capacity |-> capacity,
     selection |-> None]

ChunkEmpty == [columns |-> <<>>, count |-> 0, capacity |-> 0, selection |-> None]

ChunkReset(chunk) ==
    [chunk EXCEPT !.columns = [i \in 1..Len(chunk.columns) |-> VectorClear(chunk.columns[i])],
                  !.count = 0,
                  !.selection = None]

ChunkIsEmpty(chunk) == chunk.count = 0

ColumnCount(chunk) == Len(chunk.columns)

SelectedCount(chunk) ==
    IF IsSome(chunk.selection) THEN Len(chunk.selection.v) ELSE chunk.count

\* Option<Value> at (column_idx, logical row_idx), both 0-based
GetValue(chunk, column_idx, row_idx) ==
    IF IsSome(chunk.selection)
    THEN IF row_idx >= Len(chunk.selection.v) THEN None
         ELSE IF column_idx >= Len(chunk.columns) THEN None
         ELSE VectorGet(chunk.columns[column_idx + 1], chunk.selection.v[row_idx + 1])
    ELSE IF row_idx >= chunk.count THEN None
         ELSE IF column_idx >= Len(chunk.columns) THEN None
         ELSE VectorGet(chunk.columns[column_idx + 1], row_idx)

AppendRow(chunk, row) ==
    [chunk EXCEPT !.columns = [i \in 1..Len(chunk.columns) |-> VectorPush(chunk.columns[i], row[i])],
                  !.count = @ + 1]

\* variant: the rows from n on are selected whatever was selected before
ApplyOffsetFromCount(chunk, n) ==
    IF n = 0 THEN chunk
    ELSE IF n >= chunk.count
         THEN [chunk EXCEPT !.selection = Some(<<>>)]
         ELSE [chunk EXCEPT !.selection = Some([i \in 1..(chunk.count - n) |-> n + i - 1])]

ApplyOffset(chunk, n) ==
    IF n = 0 THEN chunk
    ELSE IF IsSome(chunk.selection)
    THEN IF n >= Len(chunk.selection.v)
         THEN [chunk EXCEPT !.selection = Some(<<>>)]
         ELSE [chunk EXCEPT !.selection = Some(SubSeq(chunk.selection.v, n + 1, Len(chunk.selection.v)))]
    ELSE IF n >= chunk.count
         THEN [chunk EXCEPT !.selection = Some(<<>>)]
         ELSE [chunk EXCEPT !.selection = Some([i \in 1..(chunk.count - n) |-> n + i - 1])]

\* truncate as it would be with room for every row
KeepAll(chunk, n) == chunk

Truncate(chunk, n) ==
    IF n >= SelectedCount(chunk) THEN chunk
    ELSE IF IsSome(chunk.selection)
    THEN [chunk EXCEPT !.selection = Some(SubSeq(chunk.selection.v, 1, n))]
    ELSE [chunk EXCEPT !.selection = Some([i \in 1..n |-> i - 1])]

\* the logical rows of a chunk: row j is the sequence of its column values
ChunkRows(chunk) ==
    [j \in 1..SelectedCount(chunk) |->
        [c \in 1..Len(chunk.columns) |-> GetValue(chunk, c - 1, j - 1).v]]


(***************************************************************************)
(* The input file: a sequence of lines, the first being the header.  A     *)
(* line is [kind, len, fields]: kind "row" (a record), "empty" (only the   *)
(* line terminator) or "space" (only whitespace); len is its length in     *)
(* bytes with its terminator; fields are its cells.  A cell is [kind, v]:  *)
(* "empty" (blank after trim), "null" (the text null), "int" (parses as    *)
(* i64 and as f64), "float" (parses as f64 only), "bool" (true / false,    *)
(* v = 1 / 0) or "text" (anything else, v the rank of the text).           *)
(***************************************************************************)
VARIABLES file, parallelism, scan, exec, test

vars == <<file, parallelism, scan, exec, test>>

Cell(kind, v) == [kind |-> kind, v |-> v]

IsBlankLine(line) == line.kind # "row"

LineStart(f, i) == SumSeq([k \in 1..(i - 1) |-> f[k].len])

FileSize(f) == SumSeq([k \in 1..Len(f) |-> f[k].len])

\* BufRead::read_line at byte position pos: the bytes up to and including
\* the next terminator.  n = 0 at end of file; line is the index of the line
\* the bytes belong to.
ReadLine(f, pos) ==
    IF pos >= FileSize(f) THEN [n |-> 0, line |-> 0]
    ELSE LET i == CHOOSE k \in 1..Len(f) : LineStart(f, k) <= pos /\ pos < LineStart(f, k + 1)
         IN  [n |-> LineStart(f, i + 1) - pos, line |-> i]

\* the rank a cell's trimmed text has as a string
CellText(cell) ==
    CASE cell.kind = "text" -> cell.v
      [] cell.kind = "int" -> 100 + cell.v
      [] cell.kind = "float" -> 200 + cell.v
      [] cell.kind = "bool" -> 300 + cell.v
      [] cell.kind = "null" -> 400
      [] OTHER -> 0

(***************************************************************************)
(* PhysicalScan::parse_value                                               *)
(***************************************************************************)
ParseValue(cell, column_type) ==
    IF cell.kind = "empty" THEN VNull
    ELSE CASE column_type = "Integer" ->
                IF cell.kind = "int" THEN VInteger(cell.v) ELSE VNull
           [] column_type = "Float" ->
                IF cell.kind \in {"int", "float"} THEN VFloat(cell.v) ELSE VNull
           [] column_type = "Boolean" ->
                IF cell.kind = "bool" THEN VBoolean(cell.v = 1) ELSE VNull
           [] column_type = "Varchar" -> VVarchar(CellText(cell))
           [] OTHER -> VNull

\* a Column of the binder: [name, type_, index]
ColumnTypes(schema) == [i \in 1..Len(schema) |-> schema[i].type_]

\* the row a record's fields give under a schema: the field at col.index,
\* Null when the record has no such field
ParseRow(fields, schema) ==
    [i \in 1..Len(schema) |->
        IF schema[i].index < Len(fields)
        THEN ParseValue(fields[schema[i].index + 1], schema[i].type_)
        ELSE VNull]

(***************************************************************************)
(* PhysicalScan.  schema, max_rows, finished, rows_read, receiver and      *)
(* csv_reader are the operator's fields (csv_reader: the index of the last *)
(* line the reader consumed); workers, channel and rows_counter are the    *)
(* threads, the mpsc channel and the shared atomic of spawn_workers.       *)
(***************************************************************************)
\* the max_rows under which the scan reads the file in the calling thread
\* (5000 in the source, scaled down with the files)
SINGLE_THREADED_MAX_ROWS == 11

ScanNew(schema, max_rows) ==
    [schema |-> schema,
     max_rows |-> max_rows,
     finished |-> FALSE,
     rows_read |-> 0,
     receiver |-> FALSE,
     csv_reader |-> None,
     workers |-> <<>>,
     channel |-> <<>>,
     rows_counter |-> 0]

ShouldUseSingleThreaded(sc) ==
    IF IsSome(sc.max_rows) THEN sc.max_rows.v < SINGLE_THREADED_MAX_ROWS ELSE FALSE

\* spawn_workers: one worker for a file under the size threshold, else as
\* many as available_parallelism reports; num_threads byte ranges of
\* chunk_size bytes, the last one running to the end of the file; the
\* scanner's own sender is dropped
NumThreads(f, available_parallelism) ==
    IF FileSize(f) < PARALLEL_FILE_SIZE THEN 1 ELSE available_parallelism

SpawnWorkers(sc, f, available_parallelism) ==
    LET file_size == FileSize(f)
        num_threads == NumThreads(f, available_parallelism)
        chunk_size == file_size \div num_threads
    IN  [sc EXCEPT
            !.workers = [k \in 1..num_threads |->
                [pc |-> "spawned",
                 start |-> (k - 1) * chunk_size,
                 end |-> IF k = num_threads THEN file_size ELSE k * chunk_size,
                 is_first |-> k = 1,
                 current_pos |-> 0,
                 chunk |-> ChunkEmpty]],
            !.channel = <<>>,
            !.rows_counter = 0,
            !.receiver = TRUE]

\* parallel_csv_worker up to its loop: seek to start, drop the first line
\* (the header for the first worker, the line start falls in for the
\* others), take the position reached
WorkerStart(sc, f, k) ==
    LET w == sc.workers[k]
        skipped == ReadLine(f, w.start)
    IN  [sc EXCEPT !.workers[k] =
            [w EXCEPT !.pc = "check",
                      !.current_pos = w.start + skipped.n,
                      !.chunk = ChunkNew(ColumnTypes(sc.schema), STANDARD_VECTOR_SIZE)]]

\* the head of the loop as it would be without the early termination check
WorkerCheckNoLimit(sc, k) == [sc EXCEPT !.workers[k].pc = "read"]

\* variant: the check lets the counter pass max_rows by one
WorkerCheckOver(sc, k) ==
    IF IsSome(sc.max_rows) /\ sc.rows_counter > sc.max_rows.v
    THEN [sc EXCEPT !.workers[k].pc = "flush"]
    ELSE [sc EXCEPT !.workers[k].pc = "read"]

\* the head of the loop: the early termination check against the counter
WorkerCheck(sc, k) ==
    IF IsSome(sc.max_rows) /\ sc.rows_counter >= sc.max_rows.v
    THEN [sc EXCEPT !.workers[k].pc = "flush"]
    ELSE [sc EXCEPT !.workers[k].pc = "read"]

\* the rest of one loop iteration: read a line, skip it when blank, else
\* append its row, count it, send a full chunk, stop past the range's end
WorkerRead(sc, f, k) ==
    LET w == sc.workers[k]
        got == ReadLine(f, w.current_pos)
        current_pos == w.current_pos + got.n
        chunk == AppendRow(w.chunk, ParseRow(f[got.line].fields, sc.schema))
        full == chunk.count >= STANDARD_VECTOR_SIZE
    IN  IF got.n = 0 THEN [sc EXCEPT !.workers[k].pc = "flush"]
        ELSE IF IsBlankLine(f[got.line])
        THEN [sc EXCEPT !.workers[k].pc = "check", !.workers[k].current_pos = current_pos]
        ELSE IF full /\ ~sc.receiver
        THEN [sc EXCEPT !.workers[k].pc = "done",
                        !.workers[k].current_pos = current_pos,
                        !.rows_counter = IF IsSome(sc.max_rows) THEN @ + 1 ELSE @]
        ELSE [sc EXCEPT
                !.workers[k].current_pos = current_pos,
                !.workers[k].chunk = IF full
                                     THEN ChunkNew(ColumnTypes(sc.schema), STANDARD_VECTOR_SIZE)
                                     ELSE chunk,
                !.channel = IF full THEN Append(@, chunk) ELSE @,
                !.rows_counter = IF IsSome(sc.max_rows) THEN @ + 1 ELSE @,
                !.workers[k].pc = IF current_pos >= w.end THEN "flush" ELSE "check"]

\* after the loop: send the partial chunk, then the sender is dropped
WorkerFlush(sc, k) ==
    LET w == sc.workers[k]
    IN  [sc EXCEPT !.workers[k].pc = "done",
                   !.workers[k].chunk = ChunkEmpty,
                   !.channel = IF w.chunk.count > 0 /\ sc.receiver THEN Append(@, w.chunk) ELSE @]

\* the channel as it would be with the scanner's own sender never dropped
SenderKept(sc) == FALSE

AllWorkersDone(sc) == \A k \in 1..Len(sc.workers) : sc.workers[k].pc = "done"

\* Receiver::recv returns once a chunk is queued or every sender is dropped
RecvReady(sc) == sc.channel # <<>> \/ AllWorkersDone(sc)

\* variant: the receive takes the chunk sent last
ScanRecvLast(sc, output) ==
    IF sc.channel # <<>>
    THEN [scan |-> [sc EXCEPT !.channel = SubSeq(@, 1, Len(@) - 1)],
          output |-> sc.channel[Len(sc.channel)],
          r |-> "NeedMoreInput"]
    ELSE [scan |-> [sc EXCEPT !.finished = TRUE],
          output |-> ChunkReset(output),
          r |-> "Finished"]

\* the receive at the end of PhysicalScan::execute; r is the ExecuteResult
ScanRecv(sc, output) ==
    IF sc.channel # <<>>
    THEN [scan |-> [sc EXCEPT !.channel = Tail(@)],
          output |-> Head(sc.channel),
          r |-> "NeedMoreInput"]
    ELSE [scan |-> [sc EXCEPT !.finished = TRUE],
          output |-> ChunkReset(output),
          r |-> "Finished"]

\* csv::Reader::records, as execute_single_threaded sees it: the index of
\* the next line that is a record (lines holding only a terminator are
\* skipped), 0 at end of file
NextRecord(f, after) ==
    LET later == {i \in (after + 1)..Len(f) : f[i].kind # "empty"}
    IN  IF later = {} THEN 0 ELSE CHOOSE i \in later : \A j \in later : i <= j

\* the end of execute_single_threaded: the scan is finished and gives the
\* rows gathered so far
SingleThreadedFinish(sc, chunk, output) ==
    [scan |-> [sc EXCEPT !.finished = TRUE],
     output |-> IF chunk.count > 0 THEN chunk ELSE ChunkReset(output),
     r |-> "Finished"]

\* the for loop of execute_single_threaded over reader.records(); a record
\* whose number of fields differs from the header's is an Err of the reader
RECURSIVE SingleThreadedLoop(_, _, _, _)
SingleThreadedLoop(sc, f, chunk, output) ==
    LET next == NextRecord(f, sc.csv_reader.v)
        taken == [sc EXCEPT !.csv_reader = Some(next)]
        appended == AppendRow(chunk, ParseRow(f[next].fields, sc.schema))
        counted == [taken EXCEPT !.rows_read = @ + 1]
    IN  IF next = 0 THEN SingleThreadedFinish(sc, chunk, output)
        ELSE IF IsSome(sc.max_rows) /\ sc.rows_read >= sc.max_rows.v
        THEN SingleThreadedFinish(taken, chunk, output)
        ELSE IF Len(f[next].fields) # Len(f[1].fields)
        THEN SingleThreadedFinish(taken, chunk, output)
        ELSE IF appended.count >= STANDARD_VECTOR_SIZE
        THEN [scan |-> counted, output |-> appended, r |-> "NeedMoreInput"]
        ELSE SingleThreadedLoop(counted, f, appended, output)

ExecuteSingleThreaded(sc, f, output) ==
    LET opened == IF IsSome(sc.csv_reader) THEN sc ELSE [sc EXCEPT !.csv_reader = Some(1)]
    IN  SingleThreadedLoop(opened, f, ChunkNew(ColumnTypes(sc.schema), STANDARD_VECTOR_SIZE), output)

(***************************************************************************)
(* Bound expressions.  LiteralValue is [t, v] with t one of Integer,       *)
(* Float, String, Boolean, Null.                                           *)
(***************************************************************************)
ColumnRef(name, index, type_) ==
    [op |-> "ColumnRef", name |-> name, index |-> index, type_ |-> type_]
Literal(value, type_) == [op |-> "Literal", value |-> value, type_ |-> type_]
Binary(op, left, right) == [op |-> op, left |-> left, right |-> right]
Not(inner) == [op |-> "Not", inner |-> inner]

LInteger(i) == Literal([t |-> "Integer", v |-> i], "Integer")
LFloat(x) == Literal([t |-> "Float", v |-> x], "Float")
LString(x) == Literal([t |-> "String", v |-> x], "Varchar")
LBoolean(b) == Literal([t |-> "Boolean", v |-> IF b THEN 1 ELSE 0], "Boolean")
LNull == Literal([t |-> "Null", v |-> 0], "Null")

ComparisonOps ==
    {"Equal", "NotEqual", "GreaterThan", "GreaterThanOrEqual", "LessThan", "LessThanOrEqual"}

(***************************************************************************)
(* PhysicalFilter                                                          *)
(***************************************************************************)
Numeric(x) == x.t \in {"Integer", "Float"}
Ordered(l, r) == (Numeric(l) /\ Numeric(r)) \/ (l.t = "Varchar" /\ r.t = "Varchar")

CompareEqual(l, r) ==
    CASE Ordered(l, r) -> l.v = r.v
      [] l.t = "Boolean" /\ r.t = "Boolean" -> l.v = r.v
      [] l.t = "Null" /\ r.t = "Null" -> TRUE
      [] OTHER -> FALSE
CompareGreater(l, r) == Ordered(l, r) /\ l.v > r.v
CompareGreaterEqual(l, r) == Ordered(l, r) /\ l.v >= r.v
CompareLess(l, r) == Ordered(l, r) /\ l.v < r.v
CompareLessEqual(l, r) == Ordered(l, r) /\ l.v <= r.v

Compare(op, l, r) ==
    CASE op = "Equal" -> CompareEqual(l, r)
      [] op = "NotEqual" -> ~CompareEqual(l, r)
      [] op = "GreaterThan" -> CompareGreater(l, r)
      [] op = "GreaterThanOrEqual" -> CompareGreaterEqual(l, r)
      [] op = "LessThan" -> CompareLess(l, r)
      [] op = "LessThanOrEqual" -> CompareLessEqual(l, r)

LiteralToValue(value) ==
    IF value.t = "String" THEN VVarchar(value.v) ELSE [t |-> value.t, v |-> value.v]

\* Option<Value>: None stands for the ? early return and the None arms
RECURSIVE EvaluateExpression(_, _, _)
EvaluateExpression(expr, chunk, row_idx) ==
    CASE expr.op = "ColumnRef" -> GetValue(chunk, expr.index, row_idx)
      [] expr.op = "Literal" -> Some(LiteralToValue(expr.value))
      [] expr.op \in ComparisonOps ->
            LET left_val == EvaluateExpression(expr.left, chunk, row_idx)
                right_val == EvaluateExpression(expr.right, chunk, row_idx)
            IN  IF ~IsSome(left_val) \/ ~IsSome(right_val) THEN None
                ELSE Some(VBoolean(Compare(expr.op, left_val.v, right_val.v)))
      [] expr.op \in {"And", "Or"} ->
            LET left_val == EvaluateExpression(expr.left, chunk, row_idx)
                right_val == EvaluateExpression(expr.right, chunk, row_idx)
            IN  IF ~IsSome(left_val) \/ ~IsSome(right_val) THEN None
                ELSE IF left_val.v.t = "Boolean" /\ right_val.v.t = "Boolean"
                THEN Some(VBoolean(IF expr.op = "And"
                                   THEN left_val.v.v = 1 /\ right_val.v.v = 1
                                   ELSE left_val.v.v = 1 \/ right_val.v.v = 1))
                ELSE None
      [] expr.op = "Not" ->
            LET val == EvaluateExpression(expr.inner, chunk, row_idx)
            IN  IF ~IsSome(val) THEN None
                ELSE IF val.v.t = "Boolean" THEN Some(VBoolean(val.v.v = 0))
                ELSE None

EvaluatePredicate(predicate, chunk, row_idx) ==
    LET val == EvaluateExpression(predicate, chunk, row_idx)
    IN  IsSome(val) /\ val.v.t = "Boolean" /\ val.v.v = 1

\* the positions row_idx..count-1 the predicate holds at, in order
RECURSIVE FilterSelection(_, _, _)
FilterSelection(predicate, input, row_idx) ==
    IF row_idx >= input.count THEN <<>>
    ELSE (IF EvaluatePredicate(predicate, input, row_idx) THEN <<row_idx>> ELSE <<>>)
         \o FilterSelection(predicate, input, row_idx + 1)

\* variant: the output's count is the number of positions selected
FilterExecuteSelectedCount(op, input, output) ==
    [op |-> op,
     output |-> [columns |-> input.columns,
                 count |-> Len(FilterSelection(op.predicate, input, 0)),
                 capacity |-> input.capacity,
                 selection |-> Some(FilterSelection(op.predicate, input, 0))],
     r |-> "NeedMoreInput"]

FilterExecute(op, input, output) ==
    [op |-> op,
     output |-> [columns |-> input.columns,
                 count |-> input.count,
                 capacity |-> input.capacity,
                 selection |-> Some(FilterSelection(op.predicate, input, 0))],
     r |-> "NeedMoreInput"]

(***************************************************************************)
(* PhysicalProjection                                                      *)
(***************************************************************************)
RECURSIVE PushAll(_, _)
PushAll(vec, values) ==
    IF values = <<>> THEN vec ELSE PushAll(VectorPush(vec, Head(values)), Tail(values))

\* variant: the rows are read at their physical positions
ProjectColumnPhysical(expr, input) ==
    LET row_count == SelectedCount(input)
        read(j) == LET got == IF expr.index >= Len(input.columns) THEN None
                              ELSE VectorGet(input.columns[expr.index + 1], j - 1)
                   IN  IF IsSome(got) THEN got.v ELSE VNull
    IN  PushAll(VectorNew(expr.type_), [j \in 1..row_count |-> read(j)])

ProjectColumn(expr, input) ==
    LET row_count == SelectedCount(input)
        read(j) == LET got == GetValue(input, expr.index, j - 1)
                   IN  IF IsSome(got) THEN got.v ELSE VNull
    IN  IF expr.op = "ColumnRef"
        THEN PushAll(VectorNew(expr.type_), [j \in 1..row_count |-> read(j)])
        ELSE PushAll(VectorNew("Varchar"), [j \in 1..row_count |-> VNull])

\* variant: the output's count is the input's physical count
ProjectionExecutePhysical(op, input, output) ==
    [op |-> op,
     output |-> [columns |-> [i \in 1..Len(op.expressions) |->
                                ProjectColumn(op.expressions[i], input)],
                 count |-> input.count,
                 capacity |-> input.count,
                 selection |-> None],
     r |-> "NeedMoreInput"]

ProjectionExecute(op, input, output) ==
    LET row_count == SelectedCount(input)
    IN  [op |-> op,
         output |-> [columns |-> [i \in 1..Len(op.expressions) |->
                                    ProjectColumn(op.expressions[i], input)],
                     count |-> row_count,
                     capacity |-> row_count,
                     selection |-> None],
         r |-> "NeedMoreInput"]

(***************************************************************************)
(* PhysicalLimit: limit and offset are Options.                            *)
(***************************************************************************)
LimitNew(limit, offset) ==
    [kind |-> "Limit",
     limit |-> limit,
     offset |-> offset,
     offset_remaining |-> IF IsSome(offset) THEN offset.v ELSE 0,
     rows_emitted |-> 0]

\* the LIMIT half of execute, on the output left by the OFFSET half
LimitApplyLimit(op, output) ==
    LET truncated == Truncate(output, op.limit.v - op.rows_emitted)
        rows_emitted == op.rows_emitted + SelectedCount(truncated)
    IN  IF IsSome(op.limit)
        THEN [op |-> [op EXCEPT !.rows_emitted = rows_emitted],
              output |-> truncated,
              r |-> IF rows_emitted >= op.limit.v THEN "Finished" ELSE "NeedMoreInput"]
        ELSE [op |-> op, output |-> output, r |-> "NeedMoreInput"]

\* variant: an empty input is handled like any other
LimitExecuteEmptyInput(op, input, output) ==
    IF IsSome(op.limit) /\ op.rows_emitted >= op.limit.v
    THEN [op |-> op, output |-> output, r |-> "Finished"]
    ELSE IF op.offset_remaining > 0
    THEN IF SelectedCount(input) <= op.offset_remaining
         THEN [op |-> [op EXCEPT !.offset_remaining = @ - SelectedCount(input)],
               output |-> ChunkReset(input),
               r |-> "NeedMoreInput"]
         ELSE LimitApplyLimit([op EXCEPT !.offset_remaining = 0],
                              ApplyOffset(input, op.offset_remaining))
    ELSE LimitApplyLimit(op, input)

LimitExecute(op, input, output) ==
    IF IsSome(op.limit) /\ op.rows_emitted >= op.limit.v
    THEN [op |-> op, output |-> output, r |-> "Finished"]
    ELSE IF ChunkIsEmpty(input)
    THEN [op |-> op, output |-> output, r |-> "Finished"]
    ELSE IF op.offset_remaining > 0
    THEN IF SelectedCount(input) <= op.offset_remaining
         THEN [op |-> [op EXCEPT !.offset_remaining = @ - SelectedCount(input)],
               output |-> ChunkReset(input),
               r |-> "NeedMoreInput"]
         ELSE LimitApplyLimit([op EXCEPT !.offset_remaining = 0],
                              ApplyOffset(input, op.offset_remaining))
    ELSE LimitApplyLimit(op, input)

(***************************************************************************)
(* PhysicalUngroupedAggregate.  A BoundAggregateExpression is              *)
(* [agg |-> "CountStar"] or [agg |-> "Count", column |-> Column].          *)
(***************************************************************************)
CountStar == [agg |-> "CountStar"]
Count(column) == [agg |-> "Count", column |-> column]

AggregateNew(aggregates) ==
    [kind |-> "Aggregate",
     aggregates |-> aggregates,
     states |-> [i \in 1..Len(aggregates) |-> 0],
     finished |-> FALSE,
     has_emitted |-> FALSE]

\* what one aggregate adds to its counter for a chunk
CountColumn(column, chunk) ==
    IF column.index >= ColumnCount(chunk) THEN 0
    ELSE CountValid(chunk.columns[column.index + 1].validity, SelectedCount(chunk))

\* update_states as it would be counting physical rows
UpdateStatesPhysical(op, chunk) ==
    [op EXCEPT !.states = [i \in 1..Len(op.aggregates) |-> op.states[i] + chunk.count]]

UpdateStates(op, chunk) ==
    [op EXCEPT !.states = [i \in 1..Len(op.aggregates) |->
        op.states[i] + (IF op.aggregates[i].agg = "CountStar"
                        THEN SelectedCount(chunk)
                        ELSE CountColumn(op.aggregates[i].column, chunk))]]

EmitResult(op) ==
    AppendRow(ChunkNew([i \in 1..Len(op.aggregates) |-> "Integer"], 1),
              [i \in 1..Len(op.states) |-> VInteger(op.states[i])])

\* variant: the row is put out on every empty input
AggregateExecuteAgain(op, input, output) ==
    IF ChunkIsEmpty(input)
    THEN [op |-> [op EXCEPT !.has_emitted = TRUE, !.finished = TRUE],
          output |-> EmitResult(op),
          r |-> "Finished"]
    ELSE [op |-> UpdateStates(op, input), output |-> ChunkReset(output), r |-> "NeedMoreInput"]

AggregateExecute(op, input, output) ==
    IF op.finished
    THEN [op |-> op, output |-> ChunkReset(output), r |-> "Finished"]
    ELSE IF op.has_emitted
    THEN [op |-> [op EXCEPT !.finished = TRUE], output |-> ChunkReset(output), r |-> "Finished"]
    ELSE IF ChunkIsEmpty(input)
    THEN [op |-> [op EXCEPT !.has_emitted = TRUE, !.finished = TRUE],
          output |-> EmitResult(op),
          r |-> "Finished"]
    ELSE [op |-> UpdateStates(op, input), output |-> ChunkReset(output), r |-> "NeedMoreInput"]

\* PhysicalOperator::execute of the operators after the source
OperatorExecute(op, input, output) ==
    CASE op.kind = "Filter" -> FilterExecute(op, input, output)
      [] op.kind = "Projection" -> ProjectionExecute(op, input, output)
      [] op.kind = "Limit" -> LimitExecute(op, input, output)
      [] op.kind = "Aggregate" -> AggregateExecute(op, input, output)

(***************************************************************************)
(* Planner::plan.  A BoundQuery is [select_columns, schema, where_clause,  *)
(* limit, offset, aggregates]; a LogicalOperator is a record whose node    *)
(* field is Get, Filter, Projection, Limit or Aggregate.                   *)
(***************************************************************************)
LogicalGet(columns, max_rows) == [node |-> "Get", columns |-> columns, max_rows |-> max_rows]
LogicalFilter(expression, child) ==
    [node |-> "Filter", expression |-> expression, child |-> child]
LogicalProjection(expressions, child) ==
    [node |-> "Projection", expressions |-> expressions, child |-> child]
LogicalLimit(limit, offset, child) ==
    [node |-> "Limit", limit |-> limit, offset |-> offset, child |-> child]
LogicalAggregate(aggregates, child) ==
    [node |-> "Aggregate", aggregates |-> aggregates, child |-> child]

Plan(query) ==
    LET get == LogicalGet(query.schema, None)
        filtered == IF IsSome(query.where_clause)
                    THEN LogicalFilter(query.where_clause.v, get)
                    ELSE get
        shaped == IF query.aggregates # <<>>
                  THEN LogicalAggregate(query.aggregates, filtered)
                  ELSE LogicalProjection(
                           [i \in 1..Len(query.select_columns) |->
                               ColumnRef(query.select_columns[i].name,
                                         query.select_columns[i].index,
                                         query.select_columns[i].type_)],
                           filtered)
    IN  IF IsSome(query.limit) \/ IsSome(query.offset)
        THEN LogicalLimit(query.limit, query.offset, shaped)
        ELSE shaped

(***************************************************************************)
(* Optimizer, pass 1: simplify_expression and eliminate_dead_code          *)
(***************************************************************************)
\* variant: no expression is recognised as the constant true
NeverConstant(expr) == FALSE

IsConstantTrue(expr) ==
    expr.op = "Literal" /\ expr.value.t = "Boolean" /\ expr.value.v = 1
\* variant: no expression is recognised as the constant false
NeverFalse(expr) == FALSE

IsConstantFalse(expr) ==
    expr.op = "Literal" /\ expr.value.t = "Boolean" /\ expr.value.v = 0

MakeBoolLiteral(value) == LBoolean(value)

\* Option<bool>
EvaluateEqual(left, right) ==
    CASE left.t = "Integer" /\ right.t = "Integer" -> Some(left.v = right.v)
      [] left.t = "Float" /\ right.t = "Float" -> Some(left.v = right.v)
      [] left.t = "String" /\ right.t = "String" -> Some(left.v = right.v)
      [] left.t = "Boolean" /\ right.t = "Boolean" -> Some(left.v = right.v)
      [] left.t = "Null" /\ right.t = "Null" -> Some(FALSE)
      [] OTHER -> None

EvaluateNotEqual(left, right) ==
    LET eq == EvaluateEqual(left, right)
    IN  IF IsSome(eq) THEN Some(~eq.v) ELSE None

SameOrderedType(left, right) ==
    left.t = right.t /\ left.t \in {"Integer", "Float", "String"}

EvaluateGreaterThan(left, right) ==
    IF SameOrderedType(left, right) THEN Some(left.v > right.v) ELSE None
EvaluateGreaterThanOrEqual(left, right) ==
    IF SameOrderedType(left, right) THEN Some(left.v >= right.v) ELSE None
EvaluateLessThan(left, right) ==
    IF SameOrderedType(left, right) THEN Some(left.v < right.v) ELSE None
EvaluateLessThanOrEqual(left, right) ==
    IF SameOrderedType(left, right) THEN Some(left.v <= right.v) ELSE None

EvaluateComparison(op, left, right) ==
    CASE op = "Equal" -> EvaluateEqual(left, right)
      [] op = "NotEqual" -> EvaluateNotEqual(left, right)
      [] op = "GreaterThan" -> EvaluateGreaterThan(left, right)
      [] op = "GreaterThanOrEqual" -> EvaluateGreaterThanOrEqual(left, right)
      [] op = "LessThan" -> EvaluateLessThan(left, right)
      [] op = "LessThanOrEqual" -> EvaluateLessThanOrEqual(left, right)

\* variant: a double NOT at the root is removed, the operands are not
\* simplified first
SimplifyTopOnly(expr) ==
    IF expr.op = "Not" /\ expr.inner.op = "Not" THEN expr.inner.inner ELSE expr

RECURSIVE SimplifyExpression(_)
SimplifyExpression(expr) ==
    CASE expr.op = "And" ->
            LET left == SimplifyExpression(expr.left)
                right == SimplifyExpression(expr.right)
            IN  IF IsConstantTrue(left) THEN right
                ELSE IF IsConstantFalse(left) THEN left
                ELSE IF IsConstantTrue(right) THEN left
                ELSE IF IsConstantFalse(right) THEN right
                ELSE Binary("And", left, right)
      [] expr.op = "Or" ->
            LET left == SimplifyExpression(expr.left)
                right == SimplifyExpression(expr.right)
            IN  IF IsConstantTrue(left) THEN left
                ELSE IF IsConstantFalse(left) THEN right
                ELSE IF IsConstantTrue(right) THEN right
                ELSE IF IsConstantFalse(right) THEN left
                ELSE Binary("Or", left, right)
      [] expr.op = "Not" ->
            LET inner == SimplifyExpression(expr.inner)
            IN  IF inner.op = "Not" THEN inner.inner
                ELSE IF IsConstantTrue(inner) THEN MakeBoolLiteral(FALSE)
                ELSE IF IsConstantFalse(inner) THEN MakeBoolLiteral(TRUE)
                ELSE Not(inner)
      [] expr.op \in ComparisonOps ->
            LET left == SimplifyExpression(expr.left)
                right == SimplifyExpression(expr.right)
                folded == EvaluateComparison(expr.op, left.value, right.value)
            IN  IF left.op = "Literal" /\ right.op = "Literal" /\ IsSome(folded)
                THEN MakeBoolLiteral(folded.v)
                ELSE Binary(expr.op, left, right)
      [] OTHER -> expr

RECURSIVE EliminateDeadCode(_)
EliminateDeadCode(plan) ==
    CASE plan.node = "Filter" ->
            LET simplified_expr == SimplifyExpression(plan.expression)
                optimized_child == EliminateDeadCode(plan.child)
            IN  IF IsConstantTrue(simplified_expr) THEN optimized_child
                ELSE LogicalFilter(simplified_expr, optimized_child)
      [] plan.node = "Get" -> plan
      [] OTHER -> [plan EXCEPT !.child = EliminateDeadCode(plan.child)]

(***************************************************************************)
(* Optimizer, pass 2: projection pushdown with index remapping             *)
(***************************************************************************)
RECURSIVE CollectColumnsFromExpression(_)
CollectColumnsFromExpression(expr) ==
    CASE expr.op = "ColumnRef" -> {expr.index}
      [] expr.op = "Literal" -> {}
      [] expr.op = "Not" -> CollectColumnsFromExpression(expr.inner)
      [] OTHER -> CollectColumnsFromExpression(expr.left)
                  \cup CollectColumnsFromExpression(expr.right)

RECURSIVE CollectRequiredColumns(_)
CollectRequiredColumns(plan) ==
    CASE plan.node = "Projection" ->
            UNION {CollectColumnsFromExpression(plan.expressions[i]) :
                       i \in 1..Len(plan.expressions)}
            \cup CollectRequiredColumns(plan.child)
      [] plan.node = "Filter" ->
            CollectColumnsFromExpression(plan.expression)
            \cup CollectRequiredColumns(plan.child)
      [] plan.node = "Get" -> {}
      [] plan.node = "Limit" -> CollectRequiredColumns(plan.child)
      [] plan.node = "Aggregate" ->
            {plan.aggregates[i].column.index :
                 i \in {k \in 1..Len(plan.aggregates) : plan.aggregates[k].agg = "Count"}}
            \cup CollectRequiredColumns(plan.child)

\* variant: the Get keeps every column
KeepColumns(columns, required_columns) == columns

\* the columns whose index is required, in schema order
RECURSIVE FilterColumns(_, _)
FilterColumns(columns, required_columns) ==
    IF columns = <<>> THEN <<>>
    ELSE (IF Head(columns).index \in required_columns THEN <<Head(columns)>> ELSE <<>>)
         \o FilterColumns(Tail(columns), required_columns)

\* original index -> new position, as a set of pairs; a later column with
\* the same index replaces an earlier one, as HashMap's collect does
RECURSIVE BuildIndexMapping(_)
BuildIndexMapping(plan) ==
    IF plan.node = "Get"
    THEN {<<plan.columns[i].index, i - 1>> :
             i \in {k \in 1..Len(plan.columns) :
                       \A j \in (k + 1)..Len(plan.columns) :
                           plan.columns[j].index # plan.columns[k].index}}
    ELSE BuildIndexMapping(plan.child)

MappingGet(mapping, index) ==
    IF \E m \in mapping : m[1] = index
    THEN Some((CHOOSE m \in mapping : m[1] = index)[2])
    ELSE None

\* variant: the indices are left as they were
KeepExpression(expr, mapping) == expr

RECURSIVE RemapExpression(_, _)
RemapExpression(expr, mapping) ==
    CASE expr.op = "ColumnRef" ->
            LET new_index == MappingGet(mapping, expr.index)
            IN  [expr EXCEPT !.index = IF IsSome(new_index) THEN new_index.v ELSE @]
      [] expr.op = "Literal" -> expr
      [] expr.op = "Not" -> Not(RemapExpression(expr.inner, mapping))
      [] OTHER -> Binary(expr.op, RemapExpression(expr.left, mapping),
                         RemapExpression(expr.right, mapping))

RemapAggregate(agg, mapping) ==
    IF agg.agg = "CountStar" THEN agg
    ELSE LET new_index == MappingGet(mapping, agg.column.index)
         IN  [agg EXCEPT !.column.index = IF IsSome(new_index) THEN new_index.v ELSE @]

RECURSIVE ApplyProjectionPushdown(_, _)
ApplyProjectionPushdown(plan, required_columns) ==
    LET optimized_child == ApplyProjectionPushdown(plan.child, required_columns)
        index_mapping == BuildIndexMapping(optimized_child)
    IN  CASE plan.node = "Projection" ->
                LogicalProjection(
                    [i \in 1..Len(plan.expressions) |->
                        RemapExpression(plan.expressions[i], index_mapping)],
                    optimized_child)
          [] plan.node = "Filter" ->
                LogicalFilter(RemapExpression(plan.expression, index_mapping), optimized_child)
          [] plan.node = "Get" ->
                LogicalGet(FilterColumns(plan.columns, required_columns), plan.max_rows)
          [] plan.node = "Limit" ->
                LogicalLimit(plan.limit, plan.offset, optimized_child)
          [] plan.node = "Aggregate" ->
                LogicalAggregate(
                    [i \in 1..Len(plan.aggregates) |->
                        RemapAggregate(plan.aggregates[i], index_mapping)],
                    optimized_child)

(***************************************************************************)
(* Optimizer, pass 3: limit pushdown.  usize arithmetic saturates at       *)
(* USIZE_MAX.                                                              *)
(***************************************************************************)
\* usize::MAX, scaled down; every limit and offset of the model is far below
USIZE_MAX == 1000000
\* the factor calculate_max_rows applies when the chain holds a Filter
SAFETY_FACTOR == 10

SaturatingAdd(a, b) == IF a > USIZE_MAX - b THEN USIZE_MAX ELSE a + b
SaturatingMul(a, b) == IF b # 0 /\ a > USIZE_MAX \div b THEN USIZE_MAX ELSE a * b

RECURSIVE IsSimpleScanChain(_)
IsSimpleScanChain(op) ==
    CASE op.node = "Get" -> TRUE
      [] op.node \in {"Filter", "Projection"} -> IsSimpleScanChain(op.child)
      [] OTHER -> FALSE

RECURSIVE HasFiltersInChain(_)
HasFiltersInChain(op) ==
    CASE op.node = "Filter" -> TRUE
      [] op.node = "Projection" -> HasFiltersInChain(op.child)
      [] OTHER -> FALSE

\* Option<usize>
CalculateMaxRows(limit_op) ==
    LET limit_val == IF IsSome(limit_op.limit) THEN limit_op.limit.v ELSE USIZE_MAX
        offset_val == IF IsSome(limit_op.offset) THEN limit_op.offset.v ELSE 0
        base_rows == SaturatingAdd(limit_val, offset_val)
        safety_factor == IF HasFiltersInChain(limit_op.child) THEN SAFETY_FACTOR ELSE 1
    IN  IF ~IsSimpleScanChain(limit_op.child) THEN None
        ELSE IF limit_val = USIZE_MAX THEN None
        ELSE Some(SaturatingMul(base_rows, safety_factor))

RECURSIVE SetMaxRowsOnGet(_, _)
SetMaxRowsOnGet(plan, max_rows) ==
    CASE plan.node = "Get" -> [plan EXCEPT !.max_rows = Some(max_rows)]
      [] plan.node \in {"Filter", "Projection"} ->
            [plan EXCEPT !.child = SetMaxRowsOnGet(plan.child, max_rows)]
      [] OTHER -> plan

RECURSIVE PushDownLimit(_)
PushDownLimit(plan) ==
    CASE plan.node = "Limit" ->
            LET max_rows == CalculateMaxRows(plan)
            IN  IF IsSome(max_rows)
                THEN [plan EXCEPT !.child = SetMaxRowsOnGet(plan.child, max_rows.v)]
                ELSE [plan EXCEPT !.child = PushDownLimit(plan.child)]
      [] plan.node = "Get" -> plan
      [] OTHER -> [plan EXCEPT !.child = PushDownLimit(plan.child)]

Optimize(plan) ==
    LET dead_code_eliminated == EliminateDeadCode(plan)
        required_columns == CollectRequiredColumns(dead_code_eliminated)
    IN  PushDownLimit(ApplyProjectionPushdown(dead_code_eliminated, required_columns))

(***************************************************************************)
(* PhysicalPlanner::plan: the operators in execution order with the output *)
(* schema of each.  The scan's own state is kept apart from the list.      *)
(***************************************************************************)
RECURSIVE BuildPipeline(_)
BuildPipeline(operator) ==
    LET below == BuildPipeline(operator.child)
        input_schema == below.schemas[Len(below.schemas)]
        push(op, schema) == [below EXCEPT !.operators = Append(@, op),
                                          !.schemas = Append(@, schema)]
    IN  CASE operator.node = "Get" ->
                [scan |-> ScanNew(operator.columns, operator.max_rows),
                 operators |-> <<[kind |-> "Scan"]>>,
                 schemas |-> <<ColumnTypes(operator.columns)>>]
          [] operator.node = "Filter" ->
                push([kind |-> "Filter", predicate |-> operator.expression], input_schema)
          [] operator.node = "Projection" ->
                push([kind |-> "Projection", expressions |-> operator.expressions],
                     [i \in 1..Len(operator.expressions) |->
                         IF operator.expressions[i].op = "ColumnRef"
                         THEN operator.expressions[i].type_
                         ELSE "Null"])
          [] operator.node = "Limit" ->
                push(LimitNew(operator.limit, operator.offset), input_schema)
          [] operator.node = "Aggregate" ->
                push(AggregateNew(operator.aggregates),
                     [i \in 1..Len(operator.aggregates) |-> "Integer"])

(***************************************************************************)
(* PhysicalScan::execute, from the point where the workers exist: the      *)
(* finished check, the single-threaded path, or the blocking receive.      *)
(***************************************************************************)
ScanExecute(sc, f, output) ==
    IF sc.finished
    THEN [scan |-> sc, output |-> ChunkReset(output), r |-> "Finished"]
    ELSE IF ShouldUseSingleThreaded(sc)
    THEN ExecuteSingleThreaded(sc, f, output)
    ELSE ScanRecv(sc, output)

\* execute has to spawn the workers first
ScanMustSpawn(sc) == ~sc.finished /\ ~ShouldUseSingleThreaded(sc) /\ ~sc.receiver

\* execute returns without blocking for ever
ScanCanReturn(sc) ==
    sc.finished \/ ShouldUseSingleThreaded(sc) \/ (sc.receiver /\ RecvReady(sc))

(***************************************************************************)
(* BufferPool, as the number of chunks it holds: a chunk taken from it is  *)
(* reset and given fresh columns, so only the number matters.              *)
(***************************************************************************)
BUFFER_POOL_CAPACITY == 100

GetChunkWithSchema(column_types) == ChunkNew(column_types, STANDARD_VECTOR_SIZE)

PoolAfterGet(pool, n) == Max(pool - n, 0)

PoolAfterReturn(pool, n) == Min(pool + n, BUFFER_POOL_CAPACITY)

(***************************************************************************)
(* PipelineExecutor.  operators[1] stands for the source, whose state is   *)
(* the variable scan.  pc is the executor's position in execute: "loop"    *)
(* (top of the loop), "source" (calling operators[0].execute), "push"      *)
(* (after the emptiness check), "done" (execute returned).  returned[i] is *)
(* the ExecuteResult operators[i] gave in the last pass, which execute     *)
(* drops.                                                                  *)
(***************************************************************************)
PipelineExecutorNew(pipeline) ==
    [operators |-> pipeline.operators,
     schemas |-> pipeline.schemas,
     pool |-> 0,
     pc |-> "loop",
     results |-> <<>>,
     source_finished |-> FALSE,
     buffers |-> <<>>,
     result |-> "NeedMoreInput",
     returned |-> [i \in 1..Len(pipeline.operators) |-> "NotCalled"]]

\* the top of the loop: a buffer per schema from the pool
ExecuteGetBuffers(ex) ==
    [ex EXCEPT !.buffers = [i \in 1..Len(ex.schemas) |-> GetChunkWithSchema(ex.schemas[i])],
               !.pool = PoolAfterGet(@, Len(ex.schemas)),
               !.pc = "source"]

\* the emptiness check as it would be without the finalization pass
ExecuteSourceDoneBreak(ex, output, r) ==
    IF ChunkIsEmpty(output)
    THEN [ex EXCEPT !.buffers = <<>>,
                    !.result = r,
                    !.pool = PoolAfterReturn(@, Len(ex.buffers)),
                    !.pc = "done"]
    ELSE [ex EXCEPT !.buffers[1] = output, !.result = r, !.pc = "push"]

\* variant: an empty buffer is not remembered
ExecuteSourceDoneForgets(ex, output, r) ==
    [ex EXCEPT !.buffers[1] = output, !.result = r, !.pc = "push"]

\* after the source has filled buffers[0]: the emptiness check
ExecuteSourceDone(ex, output, r) ==
    LET filled == [ex EXCEPT !.buffers[1] = output, !.result = r]
    IN  IF ChunkIsEmpty(output)
        THEN IF ex.source_finished
             THEN [filled EXCEPT !.buffers = <<>>,
                                 !.pool = PoolAfterReturn(@, Len(ex.buffers)),
                                 !.pc = "done"]
             ELSE [filled EXCEPT !.source_finished = TRUE, !.pc = "push"]
        ELSE [filled EXCEPT !.pc = "push"]

\* the for loop over operators[1..]
RECURSIVE PushThrough(_, _)
PushThrough(ex, i) ==
    IF i > Len(ex.operators) THEN ex
    ELSE LET got == OperatorExecute(ex.operators[i], ex.buffers[i - 1], ex.buffers[i])
         IN  PushThrough([ex EXCEPT !.operators[i] = got.op,
                                    !.buffers[i] = got.output,
                                    !.returned[i] = got.r],
                         i + 1)

\* the rest of the iteration as it would be without the break check
ExecutePushNoBreak(ex) ==
    LET pushed == PushThrough(ex, 2)
        last_buffer == pushed.buffers[Len(pushed.buffers)]
    IN  [pushed EXCEPT
            !.results = IF ChunkIsEmpty(last_buffer) THEN @ ELSE Append(@, last_buffer),
            !.buffers = <<>>,
            !.pool = PoolAfterReturn(@, Len(pushed.buffers)),
            !.pc = "loop"]

\* the rest of the iteration: push, collect, return the buffers, break check
ExecutePush(ex) ==
    LET pushed == PushThrough(ex, 2)
        last_buffer == pushed.buffers[Len(pushed.buffers)]
    IN  [pushed EXCEPT
            !.results = IF ChunkIsEmpty(last_buffer) THEN @ ELSE Append(@, last_buffer),
            !.buffers = <<>>,
            !.pool = PoolAfterReturn(@, Len(pushed.buffers)),
            !.pc = IF ex.result = "Finished" /\ ex.source_finished THEN "done" ELSE "loop"]

(***************************************************************************)
(* What a run produced: the rows of the result batches, in order.          *)
(***************************************************************************)
RECURSIVE ResultRows(_)
ResultRows(results) ==
    IF results = <<>> THEN <<>>
    ELSE ChunkRows(Head(results)) \o ResultRows(Tail(results))

Occurrences(rows, row) == Cardinality({i \in 1..Len(rows) : rows[i] = row})

SameMultiset(a, b) ==
    /\ Len(a) = Len(b)
    /\ \A i \in 1..Len(a) : Occurrences(a, a[i]) = Occurrences(b, a[i])

(***************************************************************************)
(* The actions of a run: the executor's steps and the scan workers' steps. *)
(***************************************************************************)
\* PhysicalScan::execute reaches spawn_workers
Spawn ==
    /\ exec.pc = "source"
    /\ ScanMustSpawn(scan)
    /\ scan' = SpawnWorkers(scan, file, parallelism)
    /\ UNCHANGED <<file, parallelism, exec, test>>

GetBuffers ==
    /\ exec.pc = "loop"
    /\ exec' = ExecuteGetBuffers(exec)
    /\ UNCHANGED <<file, parallelism, scan, test>>

\* operators[0].execute returns, and the emptiness check follows
Source ==
    /\ exec.pc = "source"
    /\ ~ScanMustSpawn(scan)
    /\ ScanCanReturn(scan)
    /\ LET got == ScanExecute(scan, file, exec.buffers[1])
       IN  /\ scan' = got.scan
           /\ exec' = ExecuteSourceDone(exec, got.output, got.r)
    /\ UNCHANGED <<file, parallelism, test>>

Push ==
    /\ exec.pc = "push"
    /\ exec' = ExecutePush(exec)
    /\ UNCHANGED <<file, parallelism, scan, test>>

WorkerStartStep ==
    \E k \in 1..Len(scan.workers) :
        /\ scan.workers[k].pc = "spawned"
        /\ scan' = WorkerStart(scan, file, k)
        /\ UNCHANGED <<file, parallelism, exec, test>>

WorkerCheckStep ==
    \E k \in 1..Len(scan.workers) :
        /\ scan.workers[k].pc = "check"
        /\ scan' = WorkerCheck(scan, k)
        /\ UNCHANGED <<file, parallelism, exec, test>>

WorkerReadStep ==
    \E k \in 1..Len(scan.workers) :
        /\ scan.workers[k].pc = "read"
        /\ scan' = WorkerRead(scan, file, k)
        /\ UNCHANGED <<file, parallelism, exec, test>>

WorkerFlushStep ==
    \E k \in 1..Len(scan.workers) :
        /\ scan.workers[k].pc = "flush"
        /\ scan' = WorkerFlush(scan, k)
        /\ UNCHANGED <<file, parallelism, exec, test>>

\* PhysicalPlanner::plan and PipelineExecutor::new for a logical plan
StartRun(plan) ==
    LET pipeline == BuildPipeline(plan)
    IN  [scan |-> pipeline.scan, exec |-> PipelineExecutorNew(pipeline)]

(***************************************************************************)
(* SpecScan: the executor drives a pipeline made of the scan alone, over   *)
(* files whose lines are rows of two lengths, empty lines and lines of     *)
(* whitespace.  The single Integer column of row i holds i.                *)
(***************************************************************************)
ScanSchema == <<[name |-> "n", type_ |-> "Integer", index |-> 0]>>

ScanHeader == [kind |-> "row", len |-> 2, fields |-> <<Cell("text", 1)>>]

ScanLine(shape, i) ==
    CASE shape = "short" -> [kind |-> "row", len |-> 2, fields |-> <<Cell("int", i)>>]
      [] shape = "long" -> [kind |-> "row", len |-> 3, fields |-> <<Cell("int", i)>>]
      [] shape = "empty" -> [kind |-> "empty", len |-> 1, fields |-> <<>>]
      [] shape = "space" -> [kind |-> "space", len |-> 2, fields |-> <<Cell("empty", 0)>>]

ScanFiles ==
    UNION {{<<ScanHeader>> \o [i \in 1..n |-> ScanLine(shapes[i], i + 1)] :
                shapes \in [1..n -> {"short", "long", "empty", "space"}]} :
           n \in 0..MaxScanLines}

InitScan ==
    /\ file \in ScanFiles
    /\ parallelism \in 1..MaxWorkers
    /\ scan = ScanNew(ScanSchema, None)
    /\ exec = PipelineExecutorNew(BuildPipeline(LogicalGet(ScanSchema, None)))
    /\ test = [query |-> None, optimized |-> TRUE, baseline |-> None]

NextScan ==
    \/ Spawn
    \/ GetBuffers
    \/ Source
    \/ Push
    \/ WorkerStartStep
    \/ WorkerCheckStep
    \/ WorkerReadStep
    \/ WorkerFlushStep

SpecScan == InitScan /\ [][NextScan]_vars

\* the rows a finished run delivered
Delivered == ResultRows(exec.results)

\* the indices of the file's lines that are data rows
DataLines == {i \in 2..Len(file) : ~IsBlankLine(file[i])}

\* C1: once the parallel scan without max_rows has run to its end, every
\* non-blank, non-header line of the file has been delivered as a row exactly
\* once, whatever the number of workers and wherever their ranges begin.
C1_EachLineExactlyOnce ==
    (exec.pc = "done" /\ ~IsSome(scan.max_rows) /\ Len(exec.operators) = 1)
        => /\ Len(Delivered) = Cardinality(DataLines)
           /\ \A i \in DataLines : Occurrences(Delivered, <<VInteger(i)>>) = 1

(***************************************************************************)
(* SpecScanFair: runs of the scan in which every thread goes on being       *)
(* scheduled: a worker that can take a step takes it, and so does the       *)
(* thread that runs execute (a receive that can return returns).            *)
(***************************************************************************)
\* worker k takes a step
WorkerMoves(k) ==
    /\ Len(scan.workers) = Len(scan'.workers)
    /\ scan.workers[k] # scan'.workers[k]

ExecutorStep == Spawn \/ GetBuffers \/ Source \/ Push

WorkerStep == WorkerStartStep \/ WorkerCheckStep \/ WorkerReadStep \/ WorkerFlushStep

MaxFairLines == 3
MaxFairWorkers == 2

FairFiles ==
    UNION {{<<ScanHeader>> \o [i \in 1..n |-> ScanLine(shapes[i], i + 1)] :
                shapes \in [1..n -> {"short", "empty"}]} :
           n \in 0..MaxFairLines}

InitScanFair ==
    /\ file \in FairFiles
    /\ parallelism \in 1..MaxFairWorkers
    /\ scan = StartRun(LogicalGet(ScanSchema, None)).scan
    /\ exec = StartRun(LogicalGet(ScanSchema, None)).exec
    /\ test = [query |-> None, optimized |-> TRUE, baseline |-> None]

SpecScanFair ==
    InitScanFair /\ [][NextScan]_vars /\ WF_vars(ExecutorStep) /\ WF_vars(WorkerStep)

\* the executor is inside the scan's receive
Receiving == exec.pc = "source" /\ scan.receiver

\* what worker k has left to do at most: the bytes after its position, and
\* its place in the loop
WorkerRank(sc, f, k) ==
    LET w == sc.workers[k]
    IN  CASE w.pc = "spawned" -> 4 * FileSize(f) + 4
          [] w.pc = "check" -> 4 * (FileSize(f) - w.current_pos) + 3
          [] w.pc = "read" -> 4 * (FileSize(f) - w.current_pos) + 2
          [] w.pc = "flush" -> 1
          [] OTHER -> 0

\* C14: the parallel scan never deadlocks: every batch in the channel holds
\* a row, every step of a worker brings it nearer to its exit (no send
\* blocks, the file is finite) and once spawned every worker exits, the
\* channel is then closed, and every receive of the executor returns, with a
\* non-empty batch or with the closed-channel signal.
C14_NoDeadlock ==
    /\ [](\A i \in 1..Len(scan.channel) : scan.channel[i].count > 0)
    /\ [][\A k \in 1..Len(scan.workers) :
            WorkerMoves(k) => WorkerRank(scan', file, k) < WorkerRank(scan, file, k)]_vars
    /\ [][(Receiving /\ exec' # exec)
            => \/ ~ChunkIsEmpty(exec'.buffers[1]) /\ exec'.result = "NeedMoreInput"
               \/ AllWorkersDone(scan) /\ scan.channel = <<>> /\ exec'.result = "Finished"]_vars
    /\ (scan.receiver ~> AllWorkersDone(scan))
    /\ (Receiving ~> ~Receiving)

\* the executor is blocked in a receive while several workers still run
C14_Witness ==
    /\ Receiving
    /\ ~RecvReady(scan)
    /\ Len(scan.workers) >= 2
    /\ Len(exec.results) >= 1

(***************************************************************************)
(* SpecCap: the parallel scan with max_rows set, as the limit pushdown      *)
(* leaves it on a Get: max_rows is at or over the threshold of the          *)
(* single-threaded path, and the files hold about as many rows as max_rows. *)
(***************************************************************************)
MaxCapWorkers == 2
CapExtraRows == 2

CapRowCounts == (SINGLE_THREADED_MAX_ROWS - 1)..(SINGLE_THREADED_MAX_ROWS + CapExtraRows)

\* rows of two bytes; in the second family the first row has three, which
\* moves every later row by one byte against the workers' ranges
CapFiles ==
    {<<ScanHeader>> \o [i \in 1..n |-> ScanLine(IF i = 1 THEN first ELSE "short", i + 1)] :
        n \in CapRowCounts, first \in {"short", "long"}}

CapMaxRows == {SINGLE_THREADED_MAX_ROWS, SINGLE_THREADED_MAX_ROWS + 1}

InitCap ==
    /\ file \in CapFiles
    /\ parallelism \in 1..MaxCapWorkers
    /\ \E m \in CapMaxRows :
        /\ scan = StartRun(LogicalGet(ScanSchema, Some(m))).scan
        /\ exec = StartRun(LogicalGet(ScanSchema, Some(m))).exec
    /\ test = [query |-> None, optimized |-> TRUE, baseline |-> None]

SpecCap == InitCap /\ [][NextScan]_vars

\* C12: once a run of the parallel scan with max_rows set is over, the rows
\* delivered number at least min(max_rows, R), R being the number of non-blank
\* data rows of the file, and at most max_rows plus one batch per worker.
C12_RowsDeliveredUnderCap ==
    (exec.pc = "done" /\ IsSome(scan.max_rows) /\ ~ShouldUseSingleThreaded(scan))
        => /\ Len(Delivered) >= Min(scan.max_rows.v, Cardinality(DataLines))
           /\ Len(Delivered) <= scan.max_rows.v + STANDARD_VECTOR_SIZE * Len(scan.workers)

\* the shared counter has reached max_rows
CapReached == IsSome(scan.max_rows) /\ scan.rows_counter >= scan.max_rows.v

\* what the cancellation makes the workers do: with the counter at max_rows a
\* worker at the head of its loop leaves the loop with its batch as it is, no
\* row appended and none counted, and a worker that has left the loop sends
\* its batch if it holds a row and exits
WorkersStopAtCap ==
    \A k \in 1..Len(scan.workers) :
        /\ (CapReached /\ scan.workers[k].pc = "check" /\ WorkerMoves(k))
              => /\ scan'.workers[k] = [scan.workers[k] EXCEPT !.pc = "flush"]
                 /\ scan'.rows_counter = scan.rows_counter
                 /\ scan'.channel = scan.channel
        /\ (scan.workers[k].pc = "flush" /\ WorkerMoves(k))
              => /\ scan'.workers[k].pc = "done"
                 /\ scan'.rows_counter = scan.rows_counter
                 /\ scan'.channel = IF scan.workers[k].chunk.count > 0
                                    THEN Append(scan.channel, scan.workers[k].chunk)
                                    ELSE scan.channel

\* the scan's call returns Finished with an empty batch
ScanCallFinishes ==
    /\ scan'.finished
    /\ exec'.result = "Finished"
    /\ exec'.pc = "push" => ChunkIsEmpty(exec'.buffers[1])

\* the executor's call of the scan returns
ScanCallReturns == exec.pc = "source" /\ exec' # exec

\* C13 as stated: cooperative cancellation, and after the last worker has
\* exited the scan's next call returns Finished with an empty batch.
C13_FinishedAfterLastWorker ==
    [][/\ WorkersStopAtCap
       /\ (ScanCallReturns /\ scan.receiver /\ AllWorkersDone(scan)) => ScanCallFinishes]_vars

\* C13, amended: cooperative cancellation (once the shared counter is at
\* max_rows every worker stops at the head of its next loop iteration without
\* appending another row, sends its batch if it holds a row and exits; the
\* counter never goes down), and after the last worker has exited the scan's
\* next call returns Finished with an empty batch once the batches still
\* queued in the channel have been received; while one is queued the call
\* returns it.
C13_CooperativeCancellation ==
    [][/\ WorkersStopAtCap
       /\ Len(scan.workers) = Len(scan'.workers) => scan'.rows_counter >= scan.rows_counter
       /\ (ScanCallReturns /\ scan.receiver /\ AllWorkersDone(scan) /\ scan.channel = <<>>)
             => ScanCallFinishes
       /\ (ScanCallReturns /\ scan.receiver /\ scan.channel # <<>>)
             => /\ exec'.buffers[1] = Head(scan.channel)
                /\ scan'.channel = Tail(scan.channel)
                /\ exec'.result = "NeedMoreInput"]_vars

\* the cancellation has stopped a worker short of the end of its range, and
\* the run is over
C13_Witness ==
    /\ CapReached
    /\ exec.pc = "done"
    /\ scan.finished
    /\ Len(scan.workers) = 2
    /\ AllWorkersDone(scan)
    /\ \E k \in 1..Len(scan.workers) : scan.workers[k].current_pos < scan.workers[k].end

(***************************************************************************)
(* SpecExec: queries over a two-column table, run the way the tests run    *)
(* them (bind, plan, build the pipeline, execute), first on the plan as    *)
(* the planner gives it and then on the optimized plan.  Column id holds   *)
(* the number of the row, column a is NULL, 0 or 1.                        *)
(***************************************************************************)
ColId == [name |-> "id", type_ |-> "Integer", index |-> 0]
ColA == [name |-> "a", type_ |-> "Integer", index |-> 1]
TableSchema == <<ColId, ColA>>

TableHeader == [kind |-> "row", len |-> 2, fields |-> <<Cell("text", 1), Cell("text", 2)>>]

TableLine(id, a) == [kind |-> "row", len |-> 2, fields |-> <<Cell("int", id), a>>]

ShortFiles ==
    UNION {{<<TableHeader>> \o [i \in 1..n |-> TableLine(i, as[i])] :
                as \in [1..n -> {Cell("empty", 0), Cell("int", 0), Cell("int", 1)}]} :
           n \in 0..MaxRows}

\* a = 0 in the rows before row p, a = 1 from row p on
LongFiles ==
    {<<TableHeader>> \o [i \in 1..MaxLongRows |->
                            TableLine(i, Cell("int", IF i >= p THEN 1 ELSE 0))] :
        p \in {1, MaxLongRows}}

RefA == ColumnRef("a", 1, "Integer")

WhereClauses ==
    {None,
     Some(Binary("GreaterThan", RefA, LInteger(0))),
     Some(Binary("Equal", LInteger(1), LInteger(1)))}

Limits == {None, Some(0), Some(1), Some(2)}
Offsets == {None, Some(1)}

SelectQueries ==
    {[select_columns |-> sel, schema |-> TableSchema, where_clause |-> w,
      limit |-> l, offset |-> o, aggregates |-> <<>>] :
        sel \in {<<ColId>>, <<ColA>>, <<ColA, ColId>>},
        w \in WhereClauses, l \in Limits, o \in Offsets}

AggregateQueries ==
    {[select_columns |-> <<>>, schema |-> TableSchema, where_clause |-> w,
      limit |-> l, offset |-> o, aggregates |-> aggs] :
        aggs \in {<<CountStar>>, <<Count(ColA)>>, <<CountStar, Count(ColA)>>},
        w \in WhereClauses, l \in {None, Some(0), Some(1)}, o \in Offsets}

InitExec ==
    /\ file \in ShortFiles \cup LongFiles
    /\ parallelism = 1
    /\ \E q \in SelectQueries \cup AggregateQueries :
        /\ test = [query |-> Some(q), optimized |-> FALSE, baseline |-> None]
        /\ scan = StartRun(Plan(q)).scan
        /\ exec = StartRun(Plan(q)).exec

\* the first run is over: keep its result and run the optimized plan
ExecuteOptimized ==
    /\ exec.pc = "done"
    /\ ~test.optimized
    /\ test' = [test EXCEPT !.optimized = TRUE, !.baseline = Some(exec.results)]
    /\ scan' = StartRun(Optimize(Plan(test.query.v))).scan
    /\ exec' = StartRun(Optimize(Plan(test.query.v))).exec
    /\ UNCHANGED <<file, parallelism>>

NextExec ==
    \/ Spawn
    \/ GetBuffers
    \/ Source
    \/ Push
    \/ WorkerStartStep
    \/ WorkerCheckStep
    \/ WorkerReadStep
    \/ WorkerFlushStep
    \/ ExecuteOptimized

SpecExec == InitExec /\ [][NextExec]_vars

(***************************************************************************)
(* What the properties of a run speak about.                               *)
(***************************************************************************)
\* the query under test
Q == test.query.v

HasLimit(q) == IsSome(q.limit) \/ IsSome(q.offset)

\* the row a line of the file is under the query's full schema, as a batch
LineChunk(q, line) ==
    AppendRow(ChunkNew(ColumnTypes(q.schema), 1), ParseRow(line.fields, q.schema))

\* the data lines of the file the WHERE clause of the query holds for
PassingLines(q) ==
    {i \in DataLines :
        IsSome(q.where_clause) => EvaluatePredicate(q.where_clause.v, LineChunk(q, file[i]), 0)}

\* the number of rows LIMIT k OFFSET j lets through out of m
LimitCount(q, m) ==
    LET skipped == Max(m - (IF IsSome(q.offset) THEN q.offset.v ELSE 0), 0)
    IN  IF IsSome(q.limit) THEN Min(skipped, q.limit.v) ELSE skipped

\* C2: a pipeline Scan -> [Filter] -> Aggregate never holds more than one
\* result batch, and once execute has returned it holds exactly one batch of
\* exactly one row with one Integer column per aggregate.
C2_OneAggregateRow ==
    (IsSome(test.query) /\ Q.aggregates # <<>> /\ ~HasLimit(Q))
        => /\ Len(exec.results) <= 1
           /\ exec.pc = "done" =>
                /\ Len(exec.results) = 1
                /\ SelectedCount(exec.results[1]) = 1
                /\ ColumnCount(exec.results[1]) = Len(Q.aggregates)
                /\ \A c \in 1..Len(Q.aggregates) :
                      /\ exec.results[1].columns[c].ty = "Integer"
                      /\ GetValue(exec.results[1], c - 1, 0).v.t = "Integer"

C2_Witness ==
    /\ IsSome(test.query) /\ Q.aggregates # <<>> /\ ~HasLimit(Q)
    /\ exec.pc = "done"
    /\ Len(file) = 1
    /\ Len(exec.results) = 1

\* C4: COUNT(c) under a WHERE clause is the number of rows the predicate
\* holds for and whose column c is not NULL.
C4_CountColumnWhere ==
    (IsSome(test.query) /\ exec.pc = "done" /\ IsSome(Q.where_clause))
        => \A i \in 1..Len(Q.aggregates) :
              Q.aggregates[i].agg = "Count" =>
                 \A r \in 1..Len(exec.results) :
                    \A j \in 1..SelectedCount(exec.results[r]) :
                       GetValue(exec.results[r], i - 1, j - 1).v =
                          VInteger(Cardinality(
                              {n \in PassingLines(Q) :
                                  ParseRow(file[n].fields, Q.schema)[Q.aggregates[i].column.index + 1]
                                      # VNull}))

\* C5: with one worker scanning, COUNT(*) is the number of data rows of the
\* file, and under WHERE p the number of those rows p holds for, however
\* many batches the rows came in.
C5_CountStar ==
    (IsSome(test.query) /\ exec.pc = "done")
        => \A i \in 1..Len(Q.aggregates) :
              Q.aggregates[i].agg = "CountStar" =>
                 \A r \in 1..Len(exec.results) :
                    \A j \in 1..SelectedCount(exec.results[r]) :
                       GetValue(exec.results[r], i - 1, j - 1).v =
                          VInteger(Cardinality(PassingLines(Q)))

C5_Witness ==
    /\ IsSome(test.query) /\ exec.pc = "done"
    /\ Q.aggregates = <<CountStar>>
    /\ IsSome(Q.where_clause)
    /\ Len(exec.results) = 1
    /\ GetValue(exec.results[1], 0, 0).v = VInteger(2)
    /\ Cardinality(DataLines) = 3

\* C7: the optimized plan of a query gives the same multiset of rows as the
\* plan the planner built.
C7_SameRowsAfterOptimize ==
    (exec.pc = "done" /\ test.optimized /\ IsSome(test.baseline))
        => SameMultiset(ResultRows(exec.results), ResultRows(test.baseline.v))

\* C8: a run with the max_rows budget installed on the Get returns as many
\* rows as the run without it, namely min(max(M - j, 0), k) where M is the
\* number of rows of the file the WHERE clause holds for.
C8_LimitPushdownKeepsCount ==
    (exec.pc = "done" /\ test.optimized /\ IsSome(test.baseline) /\ IsSome(scan.max_rows))
        => /\ Len(ResultRows(exec.results)) = Len(ResultRows(test.baseline.v))
           /\ Len(ResultRows(exec.results)) = LimitCount(Q, Cardinality(PassingLines(Q)))

\* a Limit operator of the pipeline has emitted its limit-th row and
\* returned Finished
LimitReached ==
    \E i \in 2..Len(exec.operators) :
        /\ exec.operators[i].kind = "Limit"
        /\ IsSome(exec.operators[i].limit)
        /\ exec.operators[i].rows_emitted >= exec.operators[i].limit.v
        /\ exec.returned[i] = "Finished"

\* C10: once a Limit operator has emitted its limit-th row and returned
\* Finished, execute has returned: the source is not called again.
C10_StopsWhenLimitFinished == LimitReached => exec.pc = "done"

\* C11: in every run of execute the pass through operators 1..N is made with
\* an empty source batch exactly when it is the last thing execute does: a
\* pass with an empty source batch ends the run (no operator is invoked after
\* it) and happens only when the source is exhausted, a pass with a non-empty
\* source batch never ends the run, and the run ends in no other way; so the
\* run holds exactly one empty pass, on the iteration in which the source
\* first gave an empty batch.
C11_OneFinalizationPass ==
    [][/\ (exec.pc = "push" /\ exec' # exec)
            => /\ ChunkIsEmpty(exec.buffers[1]) <=> exec'.pc = "done"
               /\ ChunkIsEmpty(exec.buffers[1]) => (scan.finished /\ exec.source_finished)
       /\ (exec.pc # "done" /\ exec'.pc = "done") => exec.pc = "push"]_vars

C11_Witness ==
    /\ exec.pc = "done"
    /\ exec.source_finished
    /\ Len(exec.operators) > 2
    /\ \A i \in 2..Len(exec.operators) : exec.returned[i] # "NotCalled"
    /\ Len(exec.results) >= 2

\* every column as long as the batch's count with a validity bitmap of at
\* least count bits, every selected index below count
ChunkWellFormed(chunk) ==
    /\ \A c \in 1..Len(chunk.columns) :
            /\ Len(chunk.columns[c].data) = chunk.count
            /\ chunk.columns[c].validity.len >= chunk.count
            /\ Len(chunk.columns[c].validity.words) * BITS_PER_WORD >= chunk.count
    /\ IsSome(chunk.selection)
        => \A i \in 1..Len(chunk.selection.v) : chunk.selection.v[i] < chunk.count

\* the batches of a state: the executor's buffers, before and after the
\* operators have run on them, its results, the batches in the channel and
\* the batch each worker is filling
BatchesOfState ==
    {exec.buffers[i] : i \in 1..Len(exec.buffers)}
    \cup (IF exec.pc = "push"
          THEN {PushThrough(exec, 2).buffers[i] : i \in 1..Len(exec.buffers)}
          ELSE {})
    \cup {exec.results[i] : i \in 1..Len(exec.results)}
    \cup {scan.channel[i] : i \in 1..Len(scan.channel)}
    \cup {scan.workers[k].chunk : k \in 1..Len(scan.workers)}

\* C23: in every state of an execution every batch of the scan, of an
\* operator or of the buffer pool has columns as long as its count, with a
\* validity bitmap of at least count bits, and selected indices below count.
C23_BatchInvariants ==
    \A chunk \in BatchesOfState : ChunkWellFormed(chunk)

\* a Filter left a selection vector on a batch that a Projection and a
\* Limit then worked on
C23_Witness ==
    /\ exec.pc = "push"
    /\ Len(exec.operators) >= 4
    /\ \E i \in 2..Len(exec.operators) : exec.operators[i].kind = "Filter"
    /\ \E i \in 1..Len(exec.buffers) :
        LET chunk == PushThrough(exec, 2).buffers[i]
        IN  /\ IsSome(chunk.selection)
            /\ chunk.selection.v # <<>>
            /\ Len(chunk.selection.v) < chunk.count
    /\ Len(exec.results) >= 1

(***************************************************************************)
(* SpecLimit: a PhysicalLimit fed batch after batch, as the executor feeds *)
(* it: a fresh output buffer for every call, and calls that go on after    *)
(* the operator has returned Finished.  The rows carry their number in     *)
(* their only column; a batch may carry a selection vector.  test.fed and  *)
(* test.emitted are the numbers of the selected rows given to the operator *)
(* and of the rows it put out, in order.                                   *)
(***************************************************************************)
SortedSeq(S) ==
    CHOOSE sq \in [1..Cardinality(S) -> S] : \A i, j \in 1..Cardinality(S) : i < j => sq[i] < sq[j]

\* no selection vector, or one of increasing positions among count rows
SelectionVectors(count) == {None} \cup {Some(SortedSeq(S)) : S \in SUBSET (0..(count - 1))}

RECURSIVE AppendRows(_, _)
AppendRows(chunk, rows) ==
    IF rows = <<>> THEN chunk ELSE AppendRows(AppendRow(chunk, Head(rows)), Tail(rows))

\* a batch of count rows numbered first, first + 1, ...
NumberedBatch(first, count, selection) ==
    [AppendRows(ChunkNew(<<"Integer">>, MaxBatch),
                [i \in 1..count |-> <<VInteger(first + i - 1)>>])
        EXCEPT !.selection = selection]

RowNumbers(chunk) == [i \in 1..SelectedCount(chunk) |-> ChunkRows(chunk)[i][1].v]

InitLimit ==
    /\ file = <<>>
    /\ parallelism = 1
    /\ scan = ScanNew(<<>>, None)
    /\ exec = [pc |-> "done"]
    /\ \E limit \in {None} \cup {Some(k) : k \in 0..MaxLimit},
          offset \in {None} \cup {Some(j) : j \in 0..MaxOffset} :
        test = [op |-> LimitNew(limit, offset), fed |-> <<>>, emitted |-> <<>>,
                rows |-> 0, batches |-> 0]

FeedLimit ==
    \E count \in 0..MaxBatch :
        /\ test.batches < MaxFed
        /\ test.rows + count <= MaxFed
        /\ \E selection \in SelectionVectors(count) :
            LET input == NumberedBatch(test.rows + 1, count, selection)
                got == LimitExecute(test.op, input, GetChunkWithSchema(<<"Integer">>))
            IN  test' = [op |-> got.op,
                         fed |-> test.fed \o RowNumbers(input),
                         emitted |-> test.emitted \o RowNumbers(got.output),
                         rows |-> test.rows + count,
                         batches |-> test.batches + 1]
        /\ UNCHANGED <<file, parallelism, scan, exec>>

NextLimit == FeedLimit

SpecLimit == InitLimit /\ [][NextLimit]_vars

\* the stream positions j + 1 .. j + k of a stream, as far as it reaches
Window(stream, limit, offset) ==
    LET j == IF IsSome(offset) THEN offset.v ELSE 0
        last == IF IsSome(limit) THEN Min(Len(stream), j + limit.v) ELSE Len(stream)
    IN  IF last <= j THEN <<>> ELSE SubSeq(stream, j + 1, last)

\* C3: after any sequence of batches holding N selected rows in all, a Limit
\* with limit k and offset j has put out min(max(N - j, 0), k) rows, and
\* they are the rows at stream positions j .. j + k - 1 in arrival order.
C3_LimitWindow ==
    /\ test.emitted = Window(test.fed, test.op.limit, test.op.offset)
    /\ Len(test.emitted) =
          LET rest == Max(Len(test.fed) - (IF IsSome(test.op.offset) THEN test.op.offset.v ELSE 0), 0)
          IN  IF IsSome(test.op.limit) THEN Min(rest, test.op.limit.v) ELSE rest

C3_Witness ==
    /\ test.op.limit = Some(2)
    /\ test.op.offset = Some(1)
    /\ test.batches >= 3
    /\ Len(test.fed) = 4
    /\ test.emitted = SubSeq(test.fed, 2, 3)
    /\ test.fed # <<1, 2, 3, 4>>

(***************************************************************************)
(* SpecCount: a PhysicalUngroupedAggregate computing COUNT(c) fed batches  *)
(* without selection vector, each built by append_row on a new chunk or on *)
(* the chunk of the batch before after reset, and then the empty batch of  *)
(* the finalization pass.  test.valid is the number of rows with c not     *)
(* NULL in the batches fed.                                                *)
(***************************************************************************)
CountedColumn == [name |-> "c", type_ |-> "Integer", index |-> 0]

InitCount ==
    /\ file = <<>>
    /\ parallelism = 1
    /\ scan = ScanNew(<<>>, None)
    /\ exec = [pc |-> "done"]
    /\ test = [op |-> AggregateNew(<<Count(CountedColumn)>>),
               batch |-> ChunkNew(<<"Integer">>, MaxBatchLen),
               output |-> GetChunkWithSchema(<<"Integer">>),
               valid |-> 0,
               batches |-> 0,
               r |-> "NotCalled"]

AppendValue ==
    /\ test.r # "Finished"
    /\ test.batches < MaxBatches
    /\ test.batch.count < test.batch.capacity
    /\ \E value \in {VNull, VInteger(1)} :
        test' = [test EXCEPT !.batch = AppendRow(@, <<value>>)]
    /\ UNCHANGED <<file, parallelism, scan, exec>>

FeedBatch ==
    /\ test.r # "Finished"
    /\ test.batch.count > 0
    /\ LET got == AggregateExecute(test.op, test.batch, GetChunkWithSchema(<<"Integer">>))
       IN  \E next \in {ChunkReset(test.batch), ChunkNew(<<"Integer">>, MaxBatchLen)} :
            test' = [op |-> got.op,
                     batch |-> next,
                     output |-> got.output,
                     valid |-> test.valid
                               + Cardinality({i \in 1..test.batch.count :
                                                 ChunkRows(test.batch)[i][1] # VNull}),
                     batches |-> test.batches + 1,
                     r |-> got.r]
    /\ UNCHANGED <<file, parallelism, scan, exec>>

Finalize ==
    /\ test.r # "Finished"
    /\ test.batch.count = 0
    /\ LET got == AggregateExecute(test.op, test.batch, GetChunkWithSchema(<<"Integer">>))
       IN  test' = [test EXCEPT !.op = got.op, !.output = got.output, !.r = got.r]
    /\ UNCHANGED <<file, parallelism, scan, exec>>

NextCount ==
    \/ AppendValue
    \/ FeedBatch
    \/ Finalize

SpecCount == InitCount /\ [][NextCount]_vars

\* C6: the counter of COUNT(c) holds the number of rows with c not NULL in
\* the batches fed so far, the row the aggregate emits holds that number, and
\* on the column being filled count_valid(n) is the number of i < n with
\* is_valid(i), for every n up to the column's length.
C6_CountColumn ==
    /\ test.op.states[1] = test.valid
    /\ test.r = "Finished" => ChunkRows(test.output) = <<<<VInteger(test.valid)>>>>
    /\ \A n \in 0..test.batch.count :
          CountValid(test.batch.columns[1].validity, n) =
              Cardinality({i \in 0..(n - 1) : IsValid(test.batch.columns[1].validity, i)})

C6_Witness ==
    /\ test.r = "Finished"
    /\ test.batches = 2
    /\ test.valid = 3
    /\ ChunkRows(test.output) = <<<<VInteger(3)>>>>

(***************************************************************************)
(* SpecSimplify: the WHERE expressions the binder accepts over a table of  *)
(* an Integer column x and a Boolean column y, each nullable: a logical    *)
(* plan Filter(e, Get) goes through eliminate_dead_code, and the Filter    *)
(* operators built from the plan before and after are run on one batch     *)
(* holding every combination of x in {NULL, 0, 1} and y in {NULL, false,   *)
(* true}.                                                                  *)
(***************************************************************************)
ColX == [name |-> "x", type_ |-> "Integer", index |-> 0]
ColY == [name |-> "y", type_ |-> "Boolean", index |-> 1]
XYSchema == <<ColX, ColY>>

Atoms ==
    {ColumnRef("x", 0, "Integer"), ColumnRef("y", 1, "Boolean"),
     LBoolean(TRUE), LBoolean(FALSE), LNull, LInteger(1)}

\* Binder::get_expression_type
GetExpressionType(expr) ==
    IF expr.op \in {"ColumnRef", "Literal"} THEN expr.type_ ELSE "Boolean"

\* Binder::are_types_compatible
AreTypesCompatible(left, right) ==
    \/ left = right
    \/ left = "Integer" /\ right = "Float"
    \/ left = "Float" /\ right = "Integer"
    \/ left = "Null"
    \/ right = "Null"

Comparisons ==
    {Binary(op, l, r) : op \in {"Equal", "NotEqual", "GreaterThan"},
                        l \in Atoms, r \in Atoms}

BoundComparisons ==
    {e \in Comparisons :
        AreTypesCompatible(GetExpressionType(e.left), GetExpressionType(e.right))}

Level1 == Atoms \cup BoundComparisons

WhereExpressions ==
    Level1
    \cup {Not(e) : e \in Level1}
    \cup {Not(Not(e)) : e \in Level1}
    \cup {Binary(op, l, r) : op \in {"And", "Or"}, l \in Level1, r \in Level1}

XYBatch ==
    AppendRows(ChunkNew(ColumnTypes(XYSchema), 9),
               <<<<VNull, VNull>>, <<VNull, VBoolean(FALSE)>>, <<VNull, VBoolean(TRUE)>>,
                 <<VInteger(0), VNull>>, <<VInteger(0), VBoolean(FALSE)>>,
                 <<VInteger(0), VBoolean(TRUE)>>,
                 <<VInteger(1), VNull>>, <<VInteger(1), VBoolean(FALSE)>>,
                 <<VInteger(1), VBoolean(TRUE)>>>>)

InitSimplify ==
    /\ file = <<>>
    /\ parallelism = 1
    /\ scan = ScanNew(<<>>, None)
    /\ exec = [pc |-> "done"]
    /\ \E e \in WhereExpressions :
        test = [plan |-> LogicalFilter(e, LogicalGet(XYSchema, None)),
                optimized |-> None, before |-> None, after |-> None]

EliminateDeadCodeStep ==
    /\ ~IsSome(test.optimized)
    /\ test' = [test EXCEPT !.optimized = Some(EliminateDeadCode(test.plan))]
    /\ UNCHANGED <<file, parallelism, scan, exec>>

\* the batch a plan Filter(e, Get) or Get gives for the scanned batch
RunPlan(plan, input) ==
    IF plan.node = "Filter"
    THEN FilterExecute([kind |-> "Filter", predicate |-> plan.expression], input,
                       GetChunkWithSchema(ColumnTypes(XYSchema))).output
    ELSE input

RunFilters ==
    /\ IsSome(test.optimized)
    /\ ~IsSome(test.before)
    /\ test' = [test EXCEPT !.before = Some(ChunkRows(RunPlan(test.plan, XYBatch))),
                            !.after = Some(ChunkRows(RunPlan(test.optimized.v, XYBatch)))]
    /\ UNCHANGED <<file, parallelism, scan, exec>>

NextSimplify ==
    \/ EliminateDeadCodeStep
    \/ RunFilters

SpecSimplify == InitSimplify /\ [][NextSimplify]_vars

\* C9: the Filter selects the same rows under the simplified predicate as
\* under the predicate the binder gave, and a Filter that was removed
\* selected every row.
C9_SimplifyKeepsSelection ==
    IsSome(test.before) =>
        /\ test.before = test.after
        /\ test.optimized.v.node = "Get" => test.before.v = ChunkRows(XYBatch)

(***************************************************************************)
(* SpecOptimize: the logical plans the planner builds for queries over a    *)
(* table of three columns go through the three passes of optimize, one      *)
(* after the other.  The WHERE clauses hold column references next to       *)
(* constants that fold away, and closed expressions of boolean literals     *)
(* and foldable comparisons nested under AND, OR and NOT.  Next to the      *)
(* plans of the planner there are plans with a second Limit above the       *)
(* query's Limit.                                                           *)
(***************************************************************************)
Col0 == [name |-> "c0", type_ |-> "Integer", index |-> 0]
Col1 == [name |-> "c1", type_ |-> "Integer", index |-> 1]
Col2 == [name |-> "c2", type_ |-> "Boolean", index |-> 2]
OptSchema == <<Col0, Col1, Col2>>

RefOf(col) == ColumnRef(col.name, col.index, col.type_)

\* predicates over the columns, and constants
OpenPredicates ==
    {Binary("GreaterThan", RefOf(Col0), LInteger(0)),
     Binary("Equal", RefOf(Col1), LInteger(1)),
     Binary("Equal", RefOf(Col0), RefOf(Col1)),
     RefOf(Col2),
     Binary("Equal", LInteger(1), LInteger(1)),
     LBoolean(TRUE),
     LBoolean(FALSE)}

OpenWhere ==
    OpenPredicates
    \cup {Not(e) : e \in OpenPredicates}
    \cup {Binary(op, l, r) : op \in {"And", "Or"}, l \in OpenPredicates, r \in OpenPredicates}

\* closed expressions: boolean literals and comparisons the optimizer folds
Closed0 ==
    {LBoolean(TRUE), LBoolean(FALSE),
     Binary("Equal", LInteger(1), LInteger(1)),
     Binary("GreaterThan", LInteger(1), LInteger(2)),
     Binary("LessThanOrEqual", LString(1), LString(2)),
     Binary("NotEqual", LBoolean(TRUE), LBoolean(TRUE)),
     Binary("Equal", LNull, LNull)}

Closed1 ==
    Closed0
    \cup {Not(e) : e \in Closed0}
    \cup {Binary(op, l, r) : op \in {"And", "Or"}, l \in Closed0, r \in Closed0}

ClosedWhere ==
    Closed1
    \cup {Not(e) : e \in Closed1}
    \cup {Binary(op, l, r) : op \in {"And", "Or"}, l \in Closed1, r \in Closed0}
    \cup {Binary(op, l, r) : op \in {"And", "Or"}, l \in Closed0, r \in Closed1}

OptSelects ==
    {<<Col0>>, <<Col1>>, <<Col2>>, <<Col0, Col1>>, <<Col1, Col0>>, <<Col2, Col0>>,
     <<Col1, Col2>>, <<Col2, Col2>>, <<Col0, Col1, Col2>>, <<Col2, Col1, Col0>>}

OptAggregates ==
    {<<CountStar>>, <<Count(Col1)>>, <<Count(Col2)>>, <<CountStar, Count(Col2)>>,
     <<Count(Col2), Count(Col0)>>}

\* LIMIT and OFFSET: absent, small, and at the top of the usize range
OptLimits ==
    {<<None, None>>, <<Some(1), None>>, <<Some(2), Some(1)>>, <<None, Some(1)>>,
     <<Some(USIZE_MAX), None>>, <<Some(USIZE_MAX - 1), Some(2)>>,
     <<Some(USIZE_MAX \div 2), Some(1)>>}

OptQuery(sel, aggs, w, lo) ==
    [select_columns |-> sel, schema |-> OptSchema, where_clause |-> w,
     limit |-> lo[1], offset |-> lo[2], aggregates |-> aggs]

OptQueries ==
    {OptQuery(sel, <<>>, w, lo) :
        sel \in OptSelects, w \in {None} \cup {Some(e) : e \in OpenWhere}, lo \in OptLimits}
    \cup {OptQuery(<<>>, aggs, w, lo) :
        aggs \in OptAggregates, w \in {None} \cup {Some(e) : e \in OpenWhere},
        lo \in {<<None, None>>, <<Some(1), None>>}}
    \cup {OptQuery(<<Col1>>, <<>>, Some(e), <<None, None>>) : e \in ClosedWhere}

InitOptimize ==
    /\ file = <<>>
    /\ parallelism = 1
    /\ scan = ScanNew(<<>>, None)
    /\ exec = [pc |-> "done"]
    /\ \E q \in OptQueries : \E nested \in {FALSE, IsSome(q.limit)} :
        test = [query |-> q,
                plan |-> IF nested THEN LogicalLimit(Some(2), None, Plan(q)) ELSE Plan(q),
                pass |-> 0,
                dead_code_eliminated |-> None, pushed |-> None, optimized |-> None]

\* optimize, first: eliminate dead code
DeadCodePass ==
    /\ test.pass = 0
    /\ test' = [test EXCEPT !.pass = 1,
                            !.dead_code_eliminated = Some(EliminateDeadCode(test.plan))]
    /\ UNCHANGED <<file, parallelism, scan, exec>>

\* optimize, second: collect the required columns and push the projection down
ProjectionPushdownPass ==
    /\ test.pass = 1
    /\ LET plan == test.dead_code_eliminated.v
           required_columns == CollectRequiredColumns(plan)
       IN  test' = [test EXCEPT !.pass = 2,
                                !.pushed = Some(ApplyProjectionPushdown(plan, required_columns))]
    /\ UNCHANGED <<file, parallelism, scan, exec>>

\* optimize, third: push the limit down to the scan
LimitPushdownPass ==
    /\ test.pass = 2
    /\ test' = [test EXCEPT !.pass = 3, !.optimized = Some(PushDownLimit(test.pushed.v))]
    /\ UNCHANGED <<file, parallelism, scan, exec>>

NextOptimize ==
    \/ DeadCodePass
    \/ ProjectionPushdownPass
    \/ LimitPushdownPass

SpecOptimize == InitOptimize /\ [][NextOptimize]_vars

\* the Get at the bottom of a plan
RECURSIVE GetOf(_)
GetOf(plan) == IF plan.node = "Get" THEN plan ELSE GetOf(plan.child)

\* the nodes of a plan, from the root down
RECURSIVE PlanNodes(_)
PlanNodes(plan) ==
    IF plan.node = "Get" THEN <<plan>> ELSE <<plan>> \o PlanNodes(plan.child)


\* the column indices an expression refers to
RECURSIVE SubExpressions(_)
SubExpressions(e) ==
    CASE e.op \in {"ColumnRef", "Literal"} -> {e}
      [] e.op = "Not" -> {e} \cup SubExpressions(e.inner)
      [] OTHER -> {e} \cup SubExpressions(e.left) \cup SubExpressions(e.right)

ReferencedBy(e) == {s.index : s \in {x \in SubExpressions(e) : x.op = "ColumnRef"}}

\* the column indices a plan node refers to
NodeReferences(n) ==
    CASE n.node = "Projection" -> UNION {ReferencedBy(n.expressions[i]) : i \in 1..Len(n.expressions)}
      [] n.node = "Filter" -> ReferencedBy(n.expression)
      [] n.node = "Aggregate" ->
            {n.aggregates[i].column.index :
                i \in {k \in 1..Len(n.aggregates) : n.aggregates[k].agg = "Count"}}
      [] OTHER -> {}

PlanReferences(plan) ==
    UNION {NodeReferences(PlanNodes(plan)[i]) : i \in 1..Len(PlanNodes(plan))}

Retained == GetOf(test.optimized.v).columns

\* C15: in the Get of an optimized plan every retained column is the column
\* of the file's schema at its index field, the retained columns are in
\* schema order, and the retained indices are exactly those referred to by
\* the Projection, the simplified Filter and the Count aggregates.
C15_RetainedColumns ==
    test.pass = 3
        => /\ \A i \in 1..Len(Retained) :
                /\ Retained[i].index + 1 \in 1..Len(test.query.schema)
                /\ Retained[i] = test.query.schema[Retained[i].index + 1]
           /\ \A i \in 1..Len(Retained) : \A j \in (i + 1)..Len(Retained) :
                Retained[i].index < Retained[j].index
           /\ {Retained[i].index : i \in 1..Len(Retained)}
                = PlanReferences(test.dead_code_eliminated.v)

\* two of three columns retained, selected against schema order, with a
\* WHERE clause whose simplification dropped a column reference
C15_Witness ==
    /\ test.pass = 3
    /\ Len(Retained) = 2
    /\ Len(test.query.select_columns) = 2
    /\ test.query.select_columns[1].index > test.query.select_columns[2].index
    /\ PlanReferences(test.plan) # PlanReferences(test.dead_code_eliminated.v)

\* an expression after remapping against the expression before: the same
\* expression, each column reference pointing at the position in columns
\* of the column it referred to
RECURSIVE Resolves(_, _, _)
Resolves(after, before, columns) ==
    CASE before.op = "ColumnRef" ->
            /\ after.op = "ColumnRef"
            /\ after.index + 1 \in 1..Len(columns)
            /\ columns[after.index + 1].index = before.index
            /\ after.name = before.name /\ after.type_ = before.type_
      [] before.op = "Literal" -> after = before
      [] before.op = "Not" ->
            after.op = "Not" /\ Resolves(after.inner, before.inner, columns)
      [] OTHER ->
            /\ after.op = before.op
            /\ Resolves(after.left, before.left, columns)
            /\ Resolves(after.right, before.right, columns)

NodeResolves(after, before, columns) ==
    /\ after.node = before.node
    /\ CASE before.node = "Projection" ->
                /\ Len(after.expressions) = Len(before.expressions)
                /\ \A i \in 1..Len(before.expressions) :
                        Resolves(after.expressions[i], before.expressions[i], columns)
         [] before.node = "Filter" -> Resolves(after.expression, before.expression, columns)
         [] before.node = "Aggregate" ->
                /\ Len(after.aggregates) = Len(before.aggregates)
                /\ \A i \in 1..Len(before.aggregates) :
                        IF before.aggregates[i].agg = "Count"
                        THEN /\ after.aggregates[i].agg = "Count"
                             /\ after.aggregates[i].column.index + 1 \in 1..Len(columns)
                             /\ columns[after.aggregates[i].column.index + 1].index
                                    = before.aggregates[i].column.index
                        ELSE after.aggregates[i] = before.aggregates[i]
         [] OTHER -> TRUE

\* C16: after optimize every ColumnRef of a Projection or Filter and every
\* Count column above the Get has as index the position, in the pruned Get's
\* columns, of the column it referred to before; the index is below the
\* number of retained columns.
C16_IndicesRemapped ==
    test.pass = 3
        => LET after == PlanNodes(test.optimized.v)
               before == PlanNodes(test.dead_code_eliminated.v)
           IN  /\ Len(after) = Len(before)
               /\ \A i \in 1..Len(before) : NodeResolves(after[i], before[i], Retained)

\* a Projection and a Filter over a pruned Get, a projected column no longer
\* at its original index
C16_Witness ==
    /\ test.pass = 3
    /\ test.optimized.v.node = "Projection"
    /\ test.optimized.v.child.node = "Filter"
    /\ Len(Retained) = 2
    /\ ReferencedBy(test.optimized.v.child.expression) # {}
    /\ \E i \in 1..Len(test.query.select_columns) :
            test.optimized.v.expressions[i].index # test.query.select_columns[i].index


\* the value of a comparison of two literals of one type, NULL = NULL being
\* false
CompareLiterals(op, l, r) ==
    CASE l.t = "Null" -> FALSE
      [] op = "Equal" -> l.v = r.v
      [] op = "NotEqual" -> l.v # r.v
      [] op = "GreaterThan" -> l.v > r.v
      [] op = "GreaterThanOrEqual" -> l.v >= r.v
      [] op = "LessThan" -> l.v < r.v
      [] op = "LessThanOrEqual" -> l.v <= r.v

\* the truth value of a closed expression
RECURSIVE Truth(_)
Truth(e) ==
    CASE e.op = "Literal" -> e.value.v = 1
      [] e.op = "Not" -> ~Truth(e.inner)
      [] e.op = "And" -> Truth(e.left) /\ Truth(e.right)
      [] e.op = "Or" -> Truth(e.left) \/ Truth(e.right)
      [] OTHER -> CompareLiterals(e.op, e.left.value, e.right.value)

Filters(plan) ==
    {i \in 1..Len(PlanNodes(plan)) : PlanNodes(plan)[i].node = "Filter"}

NodeKinds(plan) == [i \in 1..Len(PlanNodes(plan)) |-> PlanNodes(plan)[i].node]

TrueValue == [t |-> "Boolean", v |-> 1]
FalseValue == [t |-> "Boolean", v |-> 0]

\* C19: an optimized plan has no Filter whose condition is the literal true:
\* a Filter whose condition simplifies to true is replaced by its child,
\* one whose condition simplifies to the literal false is kept; a closed
\* condition of boolean literals and foldable comparisons under AND, OR
\* and NOT simplifies to the literal of its truth value.
C19_DeadFilterElimination ==
    test.pass = 3
        => LET optimized == test.optimized.v
               nodes == PlanNodes(optimized)
               where == test.query.where_clause
           IN  /\ \A i \in Filters(optimized) :
                        nodes[i].expression.op = "Literal"
                            => nodes[i].expression.value # TrueValue
               /\ (IsSome(where) /\ where.v \in ClosedWhere)
                    => IF Truth(where.v)
                       THEN /\ Filters(optimized) = {}
                            /\ NodeKinds(optimized)
                                  = SelectSeq(NodeKinds(test.plan), LAMBDA k : k # "Filter")
                       ELSE /\ Cardinality(Filters(optimized)) = 1
                            /\ \A i \in Filters(optimized) :
                                    nodes[i].expression = Literal(FalseValue, "Boolean")
               /\ IsSome(where)
                    => LET simplified == SimplifyExpression(where.v)
                       IN  IF simplified.op = "Literal" /\ simplified.value = TrueValue
                           THEN Filters(optimized) = {}
                           ELSE Cardinality(Filters(optimized)) = 1

\* a condition nested three deep that folds to true, its Filter gone
C19_Witness ==
    /\ test.pass = 3
    /\ IsSome(test.query.where_clause)
    /\ test.query.where_clause.v \in ClosedWhere \ Closed1
    /\ test.query.where_clause.v.op = "Not"
    /\ Truth(test.query.where_clause.v)
    /\ Filters(test.plan) # {}
    /\ Filters(test.optimized.v) = {}


\* the Limit nodes with a limit value over Filters and Projections over the Get
PushableLimits(plan) ==
    LET nodes == PlanNodes(plan)
    IN  {i \in 1..Len(nodes) :
            /\ nodes[i].node = "Limit"
            /\ IsSome(nodes[i].limit)
            /\ \A j \in (i + 1)..(Len(nodes) - 1) : nodes[j].node \in {"Filter", "Projection"}}

\* (limit + offset) * f, not above USIZE_MAX; f is 10 under a Limit with a
\* Filter below it and 1 otherwise
RowBudget(plan, i) ==
    LET nodes == PlanNodes(plan)
        offset == IF IsSome(nodes[i].offset) THEN nodes[i].offset.v ELSE 0
        f == IF \E j \in (i + 1)..Len(nodes) : nodes[j].node = "Filter" THEN 10 ELSE 1
    IN  Min((nodes[i].limit.v + offset) * f, USIZE_MAX)

\* C21: the planner leaves max_rows of the Get unset; optimize sets it to
\* saturating((limit + offset) * f) exactly when the simplified plan has a
\* Limit with a limit value over a chain of Filters and Projections over
\* the Get, f being 10 when a Filter is left in that chain and 1 otherwise.
C21_MaxRowsFromLimit ==
    /\ GetOf(test.plan).max_rows = None
    /\ test.pass = 3
        => LET plan == test.dead_code_eliminated.v
               max_rows == GetOf(test.optimized.v).max_rows
           IN  IF PushableLimits(plan) = {}
               THEN max_rows = None
               ELSE \E i \in PushableLimits(plan) : max_rows = Some(RowBudget(plan, i))

(***************************************************************************)
(* SpecFold: simplify_expression applied to an expression under a number   *)
(* of NOTs, and applied again to its own result.  The expressions are the  *)
(* comparisons of every pair of literals, the WHERE clauses of             *)
(* SpecSimplify and comparisons whose operands are themselves foldable.    *)
(* A Float is modelled by an integer and a string by its rank in           *)
(* lexicographic order.                                                    *)
(***************************************************************************)
MaxNots == 4

FoldLiterals ==
    {LInteger(1), LInteger(2), LFloat(1), LFloat(2), LString(1), LString(2),
     LBoolean(TRUE), LBoolean(FALSE), LNull}

LiteralComparisons ==
    {Binary(op, l, r) : op \in ComparisonOps, l \in FoldLiterals, r \in FoldLiterals}

FoldOperands ==
    {LBoolean(TRUE), ColumnRef("y", 1, "Boolean"), Not(LBoolean(TRUE)),
     Binary("And", LBoolean(TRUE), ColumnRef("y", 1, "Boolean")),
     Binary("Equal", LInteger(1), LInteger(1))}

NestedComparisons ==
    {Binary(op, l, r) : op \in {"Equal", "GreaterThan"}, l \in FoldOperands, r \in FoldOperands}

FoldExpressions == LiteralComparisons \cup WhereExpressions \cup NestedComparisons

InitFold ==
    /\ file = <<>>
    /\ parallelism = 1
    /\ scan = ScanNew(<<>>, None)
    /\ exec = [pc |-> "done"]
    /\ \E e \in FoldExpressions :
        test = [base |-> e, nots |-> 0, expr |-> e,
                base_once |-> None, once |-> None, twice |-> None]

\* one more NOT around the expression
NegateStep ==
    /\ test.nots < MaxNots
    /\ test.once = None
    /\ test' = [test EXCEPT !.nots = @ + 1, !.expr = Not(@)]
    /\ UNCHANGED <<file, parallelism, scan, exec>>

\* simplify_expression of the expression, and of the expression under the NOTs
SimplifyStep ==
    /\ test.once = None
    /\ test' = [test EXCEPT !.once = Some(SimplifyExpression(test.expr)),
                            !.base_once = Some(SimplifyExpression(test.base))]
    /\ UNCHANGED <<file, parallelism, scan, exec>>

\* simplify_expression of the simplified expression
SimplifyAgainStep ==
    /\ test.once # None
    /\ test.twice = None
    /\ test' = [test EXCEPT !.twice = Some(SimplifyExpression(test.once.v))]
    /\ UNCHANGED <<file, parallelism, scan, exec>>

NextFold ==
    \/ NegateStep
    \/ SimplifyStep
    \/ SimplifyAgainStep

SpecFold == InitFold /\ [][NextFold]_vars

\* C17: simplifying a simplified expression leaves it as it is.
C17_SimplifyIdempotent ==
    IsSome(test.twice) => test.twice.v = test.once.v

\* a conjunction under two NOTs that the first simplification rewrote
C17_Witness ==
    /\ IsSome(test.twice)
    /\ test.nots >= 2
    /\ test.base.op = "And"
    /\ test.once.v # test.expr
    /\ test.once.v.op # "Literal"

\* C18 as stated: an even number of NOTs around e simplifies to simplify(e),
\* an odd number to the expression NOT simplify(e).
C18_NotParity ==
    IsSome(test.once)
        => test.once.v = IF test.nots % 2 = 0 THEN test.base_once.v
                         ELSE Not(test.base_once.v)

\* the negation of a simplified expression, as the Not arm builds it
Negation(s) ==
    IF s.op = "Not" THEN s.inner
    ELSE IF s.op = "Literal" /\ s.value = TrueValue THEN Literal(FalseValue, "Boolean")
    ELSE IF s.op = "Literal" /\ s.value = FalseValue THEN Literal(TrueValue, "Boolean")
    ELSE Not(s)

\* C18: an even number of NOTs around e simplifies to simplify(e); an odd
\* number simplifies to NOT simplify(e) when simplify(e) is neither a
\* boolean literal nor a negation, to the opposite literal when simplify(e)
\* is a boolean literal, and to z when simplify(e) is NOT z.
C18_NotParityFolded ==
    IsSome(test.once)
        => test.once.v = IF test.nots % 2 = 0 THEN test.base_once.v
                         ELSE Negation(test.base_once.v)

\* three NOTs around an expression that simplifies to a negation
C18_Witness ==
    /\ IsSome(test.once)
    /\ test.nots = 3
    /\ test.base_once.v.op = "Not"
    /\ test.once.v = test.base_once.v.inner

\* the comparisons of two literals that are folded
Foldable(op, l, r) ==
    \/ l.t = r.t /\ l.t \in {"Integer", "Float", "String"}
    \/ l.t = "Boolean" /\ r.t = "Boolean" /\ op \in {"Equal", "NotEqual"}
    \/ l.t = "Null" /\ r.t = "Null" /\ op = "Equal"

\* C20: a comparison of two literals is folded to the boolean literal of its
\* value when both are Integer, both Float or both Varchar, when both are
\* Boolean and the operator is = or !=, and for NULL = NULL (to false);
\* every other comparison of two literals is left as it is.
C20_FoldedExactly ==
    (IsSome(test.once) /\ test.nots = 0 /\ test.base \in LiteralComparisons)
        => LET e == test.base
           IN  IF Foldable(e.op, e.left.value, e.right.value)
               THEN test.once.v = LBoolean(CompareLiterals(e.op, e.left.value, e.right.value))
               ELSE test.once.v = e


(***************************************************************************)
(* SpecCompare: PhysicalFilter::execute on a batch of one row with two     *)
(* columns l and r, each of any type and holding a value or NULL.  The     *)
(* predicate compares l with r or with a literal under one of the six      *)
(* operators, negates such a comparison, or is the column l itself.        *)
(***************************************************************************)
CompareTypes == {"Integer", "Float", "Varchar", "Boolean"}

\* the values a column of a type holds
ValuesOf(type) ==
    {VNull} \cup (IF type = "Boolean" THEN {VBoolean(FALSE), VBoolean(TRUE)}
                  ELSE {[t |-> type, v |-> 0], [t |-> type, v |-> 1]})

CompareOperands(lt, rt) ==
    {ColumnRef("r", 1, rt), LNull, LInteger(1), LBoolean(TRUE)}

ComparePredicates(lt, rt) ==
    LET comparisons == {Binary(op, ColumnRef("l", 0, lt), o) :
                            op \in ComparisonOps, o \in CompareOperands(lt, rt)}
    IN  comparisons \cup {Not(e) : e \in comparisons} \cup {ColumnRef("l", 0, lt)}

InitCompare ==
    /\ file = <<>>
    /\ parallelism = 1
    /\ scan = ScanNew(<<>>, None)
    /\ exec = [pc |-> "done"]
    /\ \E lt \in CompareTypes, rt \in CompareTypes :
        \E l \in ValuesOf(lt), r \in ValuesOf(rt) :
        \E e \in ComparePredicates(lt, rt) :
        test = [filter |-> [kind |-> "Filter", predicate |-> e],
                input |-> AppendRow(ChunkNew(<<lt, rt>>, STANDARD_VECTOR_SIZE), <<l, r>>),
                output |-> None]

\* PhysicalFilter::execute on the batch
FilterStep ==
    /\ test.output = None
    /\ test' = [test EXCEPT !.output =
                    Some(FilterExecute(test.filter, test.input,
                                       GetChunkWithSchema(<<>>)).output)]
    /\ UNCHANGED <<file, parallelism, scan, exec>>

NextCompare == FilterStep

SpecCompare == InitCompare /\ [][NextCompare]_vars

\* the value of an operand of the predicate in the row of the batch
OperandValue(o) ==
    IF o.op = "ColumnRef" THEN GetValue(test.input, o.index, 0).v
    ELSE LiteralToValue(o.value)

\* a comparison of these two values involves NULL or mismatched types
NullOrMismatch(l, r) ==
    \/ l.t = "Null"
    \/ r.t = "Null"
    \/ /\ l.t # r.t
       /\ ~({l.t, r.t} = {"Integer", "Float"})

RowSelected == test.output.v.selection.v # <<>>

\* C22: in the Filter a comparison, under each of the six operators, with a
\* NULL operand or operands of mismatched types is false, and a predicate
\* whose result is NULL or not Boolean filters the row out: no row is
\* selected by a comparison that involves NULL.
C22_NullNeverSelects ==
    IsSome(test.output)
        => LET e == test.filter.predicate
           IN  /\ (e.op \in ComparisonOps
                    /\ NullOrMismatch(OperandValue(e.left), OperandValue(e.right)))
                        => ~RowSelected
               /\ (e.op = "Not"
                    /\ (OperandValue(e.inner.left).t = "Null"
                            \/ OperandValue(e.inner.right).t = "Null"))
                        => ~RowSelected
               /\ (e.op = "ColumnRef" /\ OperandValue(e) # VBoolean(TRUE)) => ~RowSelected


(***************************************************************************)
(* SpecLimitCalls: a PhysicalLimit called again and again by a caller that *)
(* hands it either a fresh output buffer or the buffer its last call left. *)
(* test.before is the operator as it was before the last call, test.r the  *)
(* result of that call and test.output the buffer after it.                *)
(***************************************************************************)
InitLimitCalls ==
    /\ file = <<>>
    /\ parallelism = 1
    /\ scan = ScanNew(<<>>, None)
    /\ exec = [pc |-> "done"]
    /\ \E limit \in {None} \cup {Some(k) : k \in 0..MaxLimit},
          offset \in {None} \cup {Some(j) : j \in 0..MaxOffset} :
        test = [op |-> LimitNew(limit, offset), before |-> None, r |-> "NotCalled",
                given |-> GetChunkWithSchema(<<"Integer">>),
                output |-> GetChunkWithSchema(<<"Integer">>), rows |-> 0, calls |-> 0]

\* PhysicalLimit::execute(input, output)
LimitCall ==
    \E count \in 0..MaxBatch :
        /\ test.calls < MaxFed
        /\ test.rows + count <= MaxFed
        /\ \E selection \in SelectionVectors(count) :
           \E output \in {GetChunkWithSchema(<<"Integer">>), test.output} :
            LET input == NumberedBatch(test.rows + 1, count, selection)
                got == LimitExecute(test.op, input, output)
            IN  test' = [op |-> got.op, before |-> Some(test.op), r |-> got.r,
                         given |-> output, output |-> got.output,
                         rows |-> test.rows + count, calls |-> test.calls + 1]
        /\ UNCHANGED <<file, parallelism, scan, exec>>

NextLimitCalls == LimitCall

SpecLimitCalls == InitLimitCalls /\ [][NextLimitCalls]_vars

LimitWasReached == IsSome(test.before.v.limit) /\ test.before.v.rows_emitted >= test.before.v.limit.v

\* C24: a Limit whose rows_emitted has reached limit returns Finished with
\* an empty output and leaves rows_emitted and offset_remaining as they
\* were, whatever the input and the output buffer of the call; rows_emitted
\* never exceeds limit and offset_remaining never increases.
C24_FinishedLimitStaysFinished ==
    /\ IsSome(test.op.limit) => test.op.rows_emitted <= test.op.limit.v
    /\ IsSome(test.before)
        => /\ test.op.offset_remaining <= test.before.v.offset_remaining
           /\ LimitWasReached
                => /\ test.r = "Finished"
                   /\ ChunkIsEmpty(test.output)
                   /\ test.op = test.before.v


(***************************************************************************)
(* SpecAggregateCalls: a PhysicalUngroupedAggregate called again and again *)
(* with empty and non-empty batches, also after it has returned Finished,  *)
(* by a caller that hands it a fresh output buffer or the buffer its last  *)
(* call left.  test.before is the operator before the last call,           *)
(* test.input the batch of that call, test.empties the number of empty     *)
(* batches given before it and test.emits the number of calls that left a  *)
(* non-empty output.                                                       *)
(***************************************************************************)
AggregateLists == {<<CountStar>>, <<Count(CountedColumn)>>, <<CountStar, Count(CountedColumn)>>}

InitAggregateCalls ==
    /\ file = <<>>
    /\ parallelism = 1
    /\ scan = ScanNew(<<>>, None)
    /\ exec = [pc |-> "done"]
    /\ \E aggregates \in AggregateLists :
        test = [op |-> AggregateNew(aggregates), before |-> None, r |-> "NotCalled",
                input |-> ChunkEmpty, output |-> GetChunkWithSchema(<<"Integer">>),
                empties |-> 0, emits |-> 0, calls |-> 0]

\* PhysicalUngroupedAggregate::execute(input, output)
AggregateCall ==
    \E count \in 0..MaxBatch :
        /\ test.calls < MaxFed
        /\ \E selection \in SelectionVectors(count) :
           \E output \in {GetChunkWithSchema(<<"Integer">>), test.output} :
            LET input == NumberedBatch(1, count, selection)
                got == AggregateExecute(test.op, input, output)
            IN  test' = [op |-> got.op, before |-> Some(test.op), r |-> got.r,
                         input |-> input, output |-> got.output,
                         empties |-> test.empties
                                     + (IF IsSome(test.before) /\ ChunkIsEmpty(test.input)
                                        THEN 1 ELSE 0),
                         emits |-> test.emits + (IF ChunkIsEmpty(got.output) THEN 0 ELSE 1),
                         calls |-> test.calls + 1]
        /\ UNCHANGED <<file, parallelism, scan, exec>>

NextAggregateCalls == AggregateCall

SpecAggregateCalls == InitAggregateCalls /\ [][NextAggregateCalls]_vars

\* C25: the aggregate leaves its output empty and returns NeedMoreInput
\* while its inputs are non-empty, puts out its one row of counters on the
\* first empty input, and on every later call returns Finished with an
\* empty output and unchanged counters; it emits at most once.
C25_EmitsOnce ==
    /\ test.emits <= 1
    /\ IsSome(test.before)
        => IF test.empties > 0
           THEN /\ test.r = "Finished"
                /\ ChunkIsEmpty(test.output)
                /\ test.op.states = test.before.v.states
           ELSE IF ChunkIsEmpty(test.input)
           THEN /\ test.r = "Finished"
                /\ test.output.count = 1
                /\ test.output.selection = None
                /\ ChunkRows(test.output)
                      = <<[i \in 1..Len(test.op.states) |-> VInteger(test.before.v.states[i])]>>
                /\ test.op.states = test.before.v.states
           ELSE /\ test.r = "NeedMoreInput"
                /\ ChunkIsEmpty(test.output)

\* the row was emitted, and afterwards the operator was called with a
\* non-empty batch and the buffer that held the row
C25_Witness ==
    /\ test.calls >= 3
    /\ test.emits = 1
    /\ test.empties = 1
    /\ ~ChunkIsEmpty(test.input)
    /\ test.op.states[1] > 0
    /\ test.r = "Finished"


(***************************************************************************)
(* SpecParse: parse_value on a field of every kind for a column of every   *)
(* type, and Vector::push of the value on a vector of the column's type.   *)
(***************************************************************************)
MaxCellValue == 2

ParseCells ==
    {Cell("empty", 0), Cell("null", 0), Cell("bool", 0), Cell("bool", 1)}
    \cup {Cell(kind, v) : kind \in {"int", "float", "text"}, v \in 0..MaxCellValue}

ParseTypes == {"Integer", "Float", "Boolean", "Varchar", "Null"}

InitParse ==
    /\ file = <<>>
    /\ parallelism = 1
    /\ scan = ScanNew(<<>>, None)
    /\ exec = [pc |-> "done"]
    /\ \E cell \in ParseCells, column_type \in ParseTypes :
        test = [cell |-> cell, column_type |-> column_type, value |-> None,
                vector |-> VectorNew(column_type), pushed |-> FALSE]

\* PhysicalScan::parse_value(field, column_type)
ParseStep ==
    /\ test.value = None
    /\ test' = [test EXCEPT !.value = Some(ParseValue(test.cell, test.column_type))]
    /\ UNCHANGED <<file, parallelism, scan, exec>>

\* Vector::push of the parsed value; a value of another variant panics
PushStep ==
    /\ IsSome(test.value)
    /\ ~test.pushed
    /\ test.value.v.t \in {"Null", test.vector.ty}
    /\ test' = [test EXCEPT !.vector = VectorPush(@, test.value.v), !.pushed = TRUE]
    /\ UNCHANGED <<file, parallelism, scan, exec>>

NextParse ==
    \/ ParseStep
    \/ PushStep

SpecParse == InitParse /\ [][NextParse]_vars

\* the fields that parse as a value of the type
Parses(cell, column_type) ==
    CASE column_type = "Integer" -> cell.kind = "int"
      [] column_type = "Float" -> cell.kind \in {"int", "float"}
      [] column_type = "Boolean" -> cell.kind = "bool"
      [] column_type = "Varchar" -> TRUE
      [] OTHER -> FALSE

\* C26: parse_value gives Null for a field that is empty after trimming or
\* is the text null in any case, whatever the column type, Varchar
\* included; for any other field it gives a value of the column's type, or
\* Null when the field does not parse as that type; the value pushed
\* matches the vector's type.
C26_ParseValue ==
    /\ IsSome(test.value)
        => /\ test.cell.kind \in {"empty", "null"} => test.value.v = VNull
           /\ test.cell.kind \notin {"empty", "null"}
                => IF Parses(test.cell, test.column_type)
                   THEN test.value.v.t = test.column_type
                   ELSE test.value.v = VNull
           /\ test.value.v.t \in {"Null", test.vector.ty}
    /\ test.pushed
        => /\ Len(test.vector.data) = 1
           /\ VectorGet(test.vector, 0) = test.value


(***************************************************************************)
(* SpecSingleCalls: PhysicalScan::execute called again and again on the    *)
(* single-threaded path, max_rows being under the threshold, also after    *)
(* it has returned Finished.  The file has two columns; a line is a        *)
(* record of two fields, a record of one field, or an empty line.          *)
(* test.batches are the batches the calls gave, test.r the result of the   *)
(* last call and test.ended whether an earlier call had returned Finished  *)
(* with an empty batch.                                                    *)
(***************************************************************************)
MaxSingleLines == 4
MaxSingleCalls == 5

SingleLine(shape, i) ==
    CASE shape = "full" -> TableLine(i, Cell("int", 1))
      [] shape = "ragged" -> [kind |-> "row", len |-> 2, fields |-> <<Cell("int", i)>>]
      [] shape = "empty" -> [kind |-> "empty", len |-> 1, fields |-> <<>>]

SingleFiles ==
    UNION {{<<TableHeader>> \o [i \in 1..n |-> SingleLine(shapes[i], i)] :
                shapes \in [1..n -> {"full", "ragged", "empty"}]} :
           n \in 0..MaxSingleLines}

InitSingleCalls ==
    /\ file \in SingleFiles
    /\ parallelism = 1
    /\ \E m \in 0..(MaxSingleLines + 1) : scan = ScanNew(TableSchema, Some(m))
    /\ exec = [pc |-> "done"]
    /\ test = [batches |-> <<>>, r |-> "NotCalled", output |-> ChunkEmpty,
               ended |-> FALSE, calls |-> 0]

\* PhysicalScan::execute(_, output)
SingleCall ==
    /\ test.calls < MaxSingleCalls
    /\ ShouldUseSingleThreaded(scan)
    /\ \E output \in {GetChunkWithSchema(ColumnTypes(TableSchema)), test.output} :
        LET got == ScanExecute(scan, file, output)
        IN  /\ scan' = got.scan
            /\ test' = [batches |-> IF ChunkIsEmpty(got.output) THEN test.batches
                                     ELSE Append(test.batches, got.output),
                        r |-> got.r,
                        output |-> got.output,
                        ended |-> test.ended
                                  \/ (test.r = "Finished" /\ ChunkIsEmpty(test.output)),
                        calls |-> test.calls + 1]
    /\ UNCHANGED <<file, parallelism, exec>>

NextSingleCalls == SingleCall

SpecSingleCalls == InitSingleCalls /\ [][NextSingleCalls]_vars

\* the data records of the file, in order: the lines after the header that
\* are not empty
RECURSIVE RecordsOf(_)
RecordsOf(lines) ==
    IF lines = <<>> THEN <<>>
    ELSE (IF Head(lines).kind = "empty" THEN <<>> ELSE <<Head(lines)>>) \o RecordsOf(Tail(lines))

DataRecords == RecordsOf(Tail(file))

\* C27: on the single-threaded path the scan delivers the first
\* min(max_rows, N) of the file's N data records, in batches of at most
\* STANDARD_VECTOR_SIZE rows; it returns NeedMoreInput only with a full
\* batch and Finished otherwise, and once it has returned Finished with an
\* empty batch every later call returns Finished with an empty batch.
C27_SingleThreadedScan ==
    LET rows == ResultRows(test.batches)
        wanted == Min(scan.max_rows.v, Len(DataRecords))
    IN  /\ \A i \in 1..Len(test.batches) : test.batches[i].count <= STANDARD_VECTOR_SIZE
        /\ test.r = "NeedMoreInput" => test.output.count = STANDARD_VECTOR_SIZE
        /\ (test.r = "Finished" /\ ~ChunkIsEmpty(test.output))
                => test.output.count <= STANDARD_VECTOR_SIZE
        /\ test.ended => (test.r = "Finished" /\ ChunkIsEmpty(test.output))
        /\ Len(rows) <= wanted
        /\ \A i \in 1..Len(rows) : rows[i] = ParseRow(DataRecords[i].fields, TableSchema)
        /\ test.r = "Finished" => Len(rows) = wanted


(***************************************************************************)
(* SpecPool: a BufferPool of a small capacity shared by threads that       *)
(* acquire batches with get_chunk_with_schema, fill them and return them   *)
(* with return_chunk, each call under the pool's mutex.  A batch carries   *)
(* the number of its allocation, so that one batch in two hands shows.     *)
(* test.pool is the Vec of the pool, test.held[t] the batches thread t     *)
(* owns and test.acquired the last batch handed out with the column types  *)
(* asked for.                                                              *)
(***************************************************************************)
PoolCapacity == 2
PoolThreads == 2
MaxHeld == 2
MaxAllocations == 4

PoolSchemas == {<<"Integer">>, <<"Varchar", "Boolean">>}

\* BufferPool::get_chunk_with_schema: [pool, chunk, allocated]
PoolGetChunkWithSchema(pool, column_types, next_id) ==
    IF pool # <<>>
    THEN LET popped == pool[Len(pool)]
             chunk == [ChunkReset(popped.chunk) EXCEPT
                          !.columns = [i \in 1..Len(column_types) |-> VectorNew(column_types[i])],
                          !.capacity = STANDARD_VECTOR_SIZE]
         IN  [pool |-> SubSeq(pool, 1, Len(pool) - 1),
              chunk |-> [id |-> popped.id, chunk |-> chunk],
              allocated |-> FALSE]
    ELSE [pool |-> pool,
          chunk |-> [id |-> next_id, chunk |-> ChunkNew(column_types, STANDARD_VECTOR_SIZE)],
          allocated |-> TRUE]

\* variant: the batch is kept whatever the pool holds
PoolReturnAlways(pool, held) ==
    Append(pool, [held EXCEPT !.chunk = ChunkReset(@)])

\* BufferPool::return_chunk: the pool afterwards
PoolReturnChunk(pool, held) ==
    IF Len(pool) < PoolCapacity
    THEN Append(pool, [held EXCEPT !.chunk = ChunkReset(@)])
    ELSE pool

InitPool ==
    /\ file = <<>>
    /\ parallelism = PoolThreads
    /\ scan = ScanNew(<<>>, None)
    /\ exec = [pc |-> "done"]
    /\ test = [pool |-> <<>>, held |-> [t \in 1..PoolThreads |-> <<>>],
               next_id |-> 1, acquired |-> None]

Acquire ==
    \E t \in 1..PoolThreads, column_types \in PoolSchemas :
        /\ Len(test.held[t]) < MaxHeld
        /\ LET got == PoolGetChunkWithSchema(test.pool, column_types, test.next_id)
           IN  /\ got.allocated => test.next_id <= MaxAllocations
               /\ test' = [pool |-> got.pool,
                           held |-> [test.held EXCEPT ![t] = Append(@, got.chunk)],
                           next_id |-> test.next_id + (IF got.allocated THEN 1 ELSE 0),
                           acquired |-> Some([chunk |-> got.chunk.chunk,
                                              column_types |-> column_types])]
        /\ UNCHANGED <<file, parallelism, scan, exec>>

\* the owner writes a row into its batch, as an operator does through
\* append_row, set_selection and assignment
Fill ==
    \E t \in 1..PoolThreads : \E k \in 1..Len(test.held[t]) :
        /\ test.held[t][k].chunk.count = 0
        /\ LET chunk == test.held[t][k].chunk
               filled == [AppendRow(chunk, [i \in 1..Len(chunk.columns) |-> VNull])
                             EXCEPT !.selection = Some(<<0>>), !.capacity = 1]
           IN  test' = [test EXCEPT !.held[t][k].chunk = filled, !.acquired = None]
        /\ UNCHANGED <<file, parallelism, scan, exec>>

Return ==
    \E t \in 1..PoolThreads : \E k \in 1..Len(test.held[t]) :
        /\ test' = [test EXCEPT
                        !.pool = PoolReturnChunk(@, test.held[t][k]),
                        !.held[t] = SubSeq(@, 1, k - 1) \o SubSeq(@, k + 1, Len(@)),
                        !.acquired = None]
        /\ UNCHANGED <<file, parallelism, scan, exec>>

NextPool ==
    \/ Acquire
    \/ Fill
    \/ Return

SpecPool == InitPool /\ [][NextPool]_vars

\* C28: a batch is in one place only, the pool or the hands of one thread,
\* so the pool hands no batch out twice without a return in between; a
\* batch acquired with get_chunk_with_schema is empty, without selection
\* vector, with the column types asked for and the standard capacity; the
\* pool never holds more batches than its capacity.
C28_PoolDiscipline ==
    LET ids == [i \in 1..Len(test.pool) |-> test.pool[i].id]
               \o [i \in 1..Len(test.held[1]) |-> test.held[1][i].id]
               \o [i \in 1..Len(test.held[2]) |-> test.held[2][i].id]
    IN  /\ \A i, j \in 1..Len(ids) : i # j => ids[i] # ids[j]
        /\ Len(test.pool) <= PoolCapacity
        /\ \A i \in 1..Len(test.pool) : ChunkIsEmpty(test.pool[i].chunk)
        /\ IsSome(test.acquired)
            => LET chunk == test.acquired.v.chunk
                   column_types == test.acquired.v.column_types
               IN  /\ chunk.count = 0
                   /\ chunk.selection = None
                   /\ chunk.capacity = STANDARD_VECTOR_SIZE
                   /\ chunk.columns = [i \in 1..Len(column_types) |-> VectorNew(column_types[i])]

\* more batches were allocated than the pool can keep, and the batch just
\* handed out is an older one that came back through the pool
C28_Witness ==
    /\ IsSome(test.acquired)
    /\ test.next_id > PoolCapacity + 1
    /\ Len(test.pool) = PoolCapacity - 1
    /\ \E t \in 1..PoolThreads :
            /\ test.held[t] # <<>>
            /\ test.held[t][Len(test.held[t])].id < test.next_id - 1
            /\ test.held[t][Len(test.held[t])].chunk = test.acquired.v.chunk


(***************************************************************************)
(* SpecIo: runs in which the file system fails.  Whenever the code asks    *)
(* the file system for something (metadata, open, seek, stream_position,   *)
(* read_line, the next record of the csv reader) the call may fail.        *)
(* test.fail_at is the line at which the csv reader of the single-threaded *)
(* path gives Err (0: none, 1: the file could not be opened), test.parsed  *)
(* the rows the workers have                                               *)
(* appended to their batches, test.failed the workers whose open, seek or  *)
(* read failed.  Every thread goes on being scheduled.                     *)
(***************************************************************************)
MaxIoLines == 3
MaxIoWorkers == 2

IoFiles ==
    {<<ScanHeader>> \o [i \in 1..n |-> ScanLine("short", i + 1)] : n \in 0..MaxIoLines}

IoPlans ==
    {LogicalGet(ScanSchema, m) : m \in {None, Some(1), Some(MaxIoLines)}}
    \cup {LogicalAggregate(<<CountStar>>, LogicalGet(ScanSchema, None))}

\* the file as the csv reader gives it when reading line fail_at fails: the
\* record is an Err, as a record of another length than the header's is
Readable(f, fail_at) ==
    [i \in 1..Len(f) |-> IF i = fail_at THEN [f[i] EXCEPT !.fields = <<>>] ELSE f[i]]

\* PhysicalScan::execute when spawn_workers returns Err: output is left as
\* it was given
SpawnFailed(sc, output) ==
    [scan |-> [sc EXCEPT !.finished = TRUE], output |-> output, r |-> "Finished"]

\* execute_single_threaded when csv::Reader::from_path returns Err
OpenFailed(sc, output) ==
    [scan |-> [sc EXCEPT !.finished = TRUE], output |-> ChunkReset(output), r |-> "Finished"]

\* parallel_csv_worker when File::open, seek or the read_line that skips
\* the first line fails: the worker returns
WorkerStartFailed(sc, k) ==
    [sc EXCEPT !.workers[k].pc = "done"]

\* parallel_csv_worker when stream_position fails: the position is taken
\* to be start
WorkerStartNoPosition(sc, f, k) ==
    [WorkerStart(sc, f, k) EXCEPT !.workers[k].current_pos = sc.workers[k].start]

\* variant: the worker returns where its read fails
WorkerReadFailedReturn(sc, k) ==
    [sc EXCEPT !.workers[k].pc = "done", !.workers[k].chunk = ChunkEmpty]

\* the loop of parallel_csv_worker when read_line returns Err: break
WorkerReadFailed(sc, k) ==
    [sc EXCEPT !.workers[k].pc = "flush"]

InitIo ==
    /\ file \in IoFiles
    /\ parallelism \in 1..MaxIoWorkers
    /\ \E plan \in IoPlans :
        /\ scan = StartRun(plan).scan
        /\ exec = StartRun(plan).exec
        /\ \E fail_at \in {0} \cup (IF IsSome(GetOf(plan).max_rows) THEN 2..Len(file) ELSE {}) :
            test = [fail_at |-> fail_at, parsed |-> <<>>, failed |-> {}]

\* operators[0].execute returns, the csv reader failing at line fail_at
IoSource ==
    /\ exec.pc = "source"
    /\ ~ScanMustSpawn(scan)
    /\ ScanCanReturn(scan)
    /\ LET got == ScanExecute(scan, Readable(file, test.fail_at), exec.buffers[1])
       IN  /\ scan' = got.scan
           /\ exec' = ExecuteSourceDone(exec, got.output, got.r)
    /\ UNCHANGED <<file, parallelism, test>>

SpawnFail ==
    /\ exec.pc = "source"
    /\ ScanMustSpawn(scan)
    /\ LET got == SpawnFailed(scan, exec.buffers[1])
       IN  /\ scan' = got.scan
           /\ exec' = ExecuteSourceDone(exec, got.output, got.r)
    /\ UNCHANGED <<file, parallelism, test>>

OpenFail ==
    /\ exec.pc = "source"
    /\ ~scan.finished
    /\ ShouldUseSingleThreaded(scan)
    /\ ~IsSome(scan.csv_reader)
    /\ LET got == OpenFailed(scan, exec.buffers[1])
       IN  /\ scan' = got.scan
           /\ exec' = ExecuteSourceDone(exec, got.output, got.r)
    /\ test' = [test EXCEPT !.fail_at = 1]
    /\ UNCHANGED <<file, parallelism>>

WorkerStartFail ==
    \E k \in 1..Len(scan.workers) :
        /\ scan.workers[k].pc = "spawned"
        /\ scan' = WorkerStartFailed(scan, k)
        /\ test' = [test EXCEPT !.failed = @ \cup {k}]
        /\ UNCHANGED <<file, parallelism, exec>>

WorkerStartNoPositionStep ==
    \E k \in 1..Len(scan.workers) :
        /\ scan.workers[k].pc = "spawned"
        /\ scan' = WorkerStartNoPosition(scan, file, k)
        /\ UNCHANGED <<file, parallelism, exec, test>>

\* one loop iteration of a worker whose read succeeds
IoWorkerReadStep ==
    \E k \in 1..Len(scan.workers) :
        /\ scan.workers[k].pc = "read"
        /\ scan' = WorkerRead(scan, file, k)
        /\ LET got == ReadLine(file, scan.workers[k].current_pos)
           IN  test' = IF got.n # 0 /\ ~IsBlankLine(file[got.line])
                       THEN [test EXCEPT !.parsed =
                                Append(@, ParseRow(file[got.line].fields, scan.schema))]
                       ELSE test
        /\ UNCHANGED <<file, parallelism, exec>>

WorkerReadFail ==
    \E k \in 1..Len(scan.workers) :
        /\ scan.workers[k].pc = "read"
        /\ scan' = WorkerReadFailed(scan, k)
        /\ test' = [test EXCEPT !.failed = @ \cup {k}]
        /\ UNCHANGED <<file, parallelism, exec>>

IoExecutorStep == Spawn \/ SpawnFail \/ GetBuffers \/ IoSource \/ OpenFail \/ Push

IoWorkerStep ==
    \/ WorkerStartStep
    \/ WorkerStartFail
    \/ WorkerStartNoPositionStep
    \/ WorkerCheckStep
    \/ IoWorkerReadStep
    \/ WorkerReadFail
    \/ WorkerFlushStep

NextIo ==
    \/ Spawn
    \/ SpawnFail
    \/ GetBuffers
    \/ IoSource
    \/ OpenFail
    \/ Push
    \/ WorkerStartStep
    \/ WorkerStartFail
    \/ WorkerStartNoPositionStep
    \/ WorkerCheckStep
    \/ IoWorkerReadStep
    \/ WorkerReadFail
    \/ WorkerFlushStep

SpecIo == InitIo /\ [][NextIo]_vars /\ WF_vars(IoExecutorStep) /\ WF_vars(IoWorkerStep)

\* the rows that preceded the failure: the records the csv reader gave
\* before line fail_at, max_rows of them at most, or the rows the workers
\* appended to their batches
Preceding ==
    IF ShouldUseSingleThreaded(scan)
    THEN LET last == IF test.fail_at = 0 THEN Len(file) ELSE test.fail_at - 1
             wanted == Min(scan.max_rows.v, last - 1)
         IN  [i \in 1..wanted |-> ParseRow(file[i + 1].fields, scan.schema)]
    ELSE test.parsed

\* C29: whichever calls of the file system fail, a worker whose open, seek
\* or read failed reads no further, the run ends (execute returns its
\* batches, there is no other way out of it), the scan has then reported
\* Finished, the result holds the rows that preceded the failure, and an
\* aggregate query returns its one row counting them.
C29_IoFailuresEndTheStream ==
    /\ [](\A k \in test.failed : scan.workers[k].pc \in {"flush", "done"})
    /\ [](exec.pc = "done"
            => /\ scan.finished
               /\ exec.result = "Finished"
               /\ IF Len(exec.operators) = 1
                  THEN SameMultiset(Delivered, Preceding)
                  ELSE Delivered = <<<<VInteger(Len(Preceding))>>>>)
    /\ <>(exec.pc = "done")

\* a run is over in which one worker's read failed after it had appended a
\* row to a batch it had not sent yet, and that row is in the result
C29_Witness ==
    /\ exec.pc = "done"
    /\ test.failed # {}
    /\ Len(scan.workers) = 2
    /\ Len(test.parsed) = 1
    /\ Len(Delivered) = 1


(***************************************************************************)
(* SpecReset: a pipeline is executed, reset and executed again.  The       *)
(* reset comes after the first execute has returned, or between two        *)
(* iterations of its loop, while workers of the scan still run.  pc is     *)
(* "joining" while PhysicalScan::reset waits in JoinHandle::join.          *)
(* test.plan is the plan the pipeline was built from, test.runs the number *)
(* of resets, test.first the result of the first execute when it returned. *)
(***************************************************************************)
MaxResetRows == 4
MaxResetWorkers == 2

ResetFiles ==
    {<<TableHeader>> \o [i \in 1..n |-> TableLine(i, Cell("int", 1))] : n \in 0..MaxResetRows}

ResetQueries ==
    {[select_columns |-> <<ColId>>, schema |-> TableSchema, where_clause |-> None,
      limit |-> l, offset |-> o, aggregates |-> aggs] :
        l \in {None, Some(1)}, o \in {None, Some(1)}, aggs \in {<<>>, <<CountStar>>}}

ResetPlans == {Plan(q) : q \in ResetQueries} \cup {Optimize(Plan(q)) : q \in ResetQueries}

\* PhysicalScan::reset up to the joins: the Receiver is dropped, and the
\* chunks queued in the channel with it
ScanResetBegin(sc) ==
    [sc EXCEPT !.finished = FALSE, !.rows_read = 0, !.receiver = FALSE, !.channel = <<>>]

\* PhysicalScan::reset after the joins: the handles are taken, the workers
\* and their counter are gone, the csv reader is dropped
ScanResetEnd(sc) ==
    [sc EXCEPT !.workers = <<>>, !.rows_counter = 0, !.csv_reader = None]

\* variant: the offset is restored, the count of emitted rows is kept
LimitResetOffset(op) ==
    [op EXCEPT !.offset_remaining = IF IsSome(op.offset) THEN op.offset.v ELSE 0]

\* PhysicalLimit::reset
LimitReset(op) ==
    [op EXCEPT !.offset_remaining = IF IsSome(op.offset) THEN op.offset.v ELSE 0,
               !.rows_emitted = 0]

\* PhysicalUngroupedAggregate::reset
AggregateReset(op) ==
    [op EXCEPT !.states = [i \in 1..Len(op.states) |-> 0],
               !.finished = FALSE,
               !.has_emitted = FALSE]

\* reset of operators[i], i > 0; Filter and Projection keep no state
OperatorReset(op) ==
    CASE op.kind = "Limit" -> LimitReset(op)
      [] op.kind = "Aggregate" -> AggregateReset(op)
      [] OTHER -> op

\* PipelineExecutor::reset once the scan's reset has returned, and the
\* entry of the next execute
ExecutorReset(ex) ==
    [ex EXCEPT !.operators = [i \in 1..Len(ex.operators) |-> OperatorReset(ex.operators[i])],
               !.pc = "loop",
               !.results = <<>>,
               !.source_finished = FALSE,
               !.buffers = <<>>,
               !.result = "NeedMoreInput",
               !.returned = [i \in 1..Len(ex.operators) |-> "NotCalled"]]

InitReset ==
    /\ file \in ResetFiles
    /\ parallelism \in 1..MaxResetWorkers
    /\ \E plan \in ResetPlans :
        /\ scan = StartRun(plan).scan
        /\ exec = StartRun(plan).exec
        /\ test = [plan |-> plan, runs |-> 0, first |-> None]

\* reset is called: the scan's reset runs up to its joins
ResetBegin ==
    /\ exec.pc \in {"loop", "done"}
    /\ test.runs = 0
    /\ scan' = ScanResetBegin(scan)
    /\ exec' = [exec EXCEPT !.pc = "joining"]
    /\ test' = [test EXCEPT !.runs = 1,
                            !.first = IF exec.pc = "done" THEN Some(exec.results) ELSE None]
    /\ UNCHANGED <<file, parallelism>>

\* every join has returned: the rest of the resets, then execute again
ResetEnd ==
    /\ exec.pc = "joining"
    /\ AllWorkersDone(scan)
    /\ scan' = ScanResetEnd(scan)
    /\ exec' = ExecutorReset(exec)
    /\ UNCHANGED <<file, parallelism, test>>

NextReset ==
    \/ Spawn
    \/ GetBuffers
    \/ Source
    \/ Push
    \/ WorkerStartStep
    \/ WorkerCheckStep
    \/ WorkerReadStep
    \/ WorkerFlushStep
    \/ ResetBegin
    \/ ResetEnd

SpecReset == InitReset /\ [][NextReset]_vars

\* a pipeline with a Limit over a scan of several workers: the rows it
\* returns depend on the order in which the workers' batches arrive
OrderDependent ==
    /\ Len(scan.workers) > 1
    /\ \E i \in 1..Len(exec.operators) : exec.operators[i].kind = "Limit"

\* the second execute has returned, the first one had returned as well
BothRunsOver == exec.pc = "done" /\ test.runs = 1 /\ IsSome(test.first)

\* the join of reset returns: while a worker is left it can take a step,
\* every step brings it nearer to its exit, and once none is left reset
\* goes on; and reset leaves the scan and every operator as they were built
ResetReturnsRestored ==
    /\ [](exec.pc = "joining"
            => IF AllWorkersDone(scan) THEN ENABLED ResetEnd ELSE ENABLED WorkerStep)
    /\ [][\A k \in 1..Len(scan.workers) :
            WorkerMoves(k) => WorkerRank(scan', file, k) < WorkerRank(scan, file, k)]_vars
    /\ [][ResetEnd => /\ scan' = StartRun(test.plan).scan
                      /\ exec'.operators = StartRun(test.plan).exec.operators]_vars

C30_WitnessJoin ==
    /\ exec.pc = "joining"
    /\ \E k \in 1..Len(scan.workers) : scan.workers[k].pc = "read"

(***************************************************************************)
(* SpecFilter: PhysicalFilter::execute on batches as a scan gives them     *)
(* (no selection vector), of no row to MaxFilterRows rows, into an output  *)
(* buffer that is fresh or holds the result of an earlier call.            *)
(* test.input is the batch, test.given the output buffer handed in,        *)
(* test.output and test.r what the call left and returned.                 *)
(***************************************************************************)
MaxFilterRows == 3

FilterColA == ColumnRef("a", 0, "Integer")
FilterColB == ColumnRef("b", 1, "Boolean")

FilterPredicates ==
    {Binary("GreaterThan", FilterColA, LInteger(0)),
     Binary("Equal", FilterColA, LInteger(1)),
     FilterColB,
     Not(FilterColB),
     Binary("And", Binary("GreaterThan", FilterColA, LInteger(0)), FilterColB),
     LBoolean(TRUE),
     LNull,
     FilterColA}

FilterRows ==
    {<<a, b>> : a \in {VNull, VInteger(0), VInteger(1)},
                b \in {VNull, VBoolean(FALSE), VBoolean(TRUE)}}

FilterBatches ==
    UNION {{AppendRows(ChunkNew(<<"Integer", "Boolean">>, MaxFilterRows), rows) :
                rows \in [1..n -> FilterRows]} : n \in 0..MaxFilterRows}

InitFilter ==
    /\ file = <<>>
    /\ parallelism = 1
    /\ scan = ScanNew(<<>>, None)
    /\ exec = [pc |-> "done"]
    /\ \E e \in FilterPredicates, input \in FilterBatches :
        test = [filter |-> [kind |-> "Filter", predicate |-> e],
                input |-> input,
                given |-> None, output |-> None, r |-> "NotCalled", calls |-> 0]

\* PhysicalFilter::execute on the batch, into a fresh buffer or into the
\* buffer the last call filled
FilterBatchStep ==
    /\ test.calls < 2
    /\ \E given \in {GetChunkWithSchema(<<"Integer", "Boolean">>)}
                    \cup (IF IsSome(test.output) THEN {test.output.v} ELSE {}) :
        LET got == FilterExecute(test.filter, test.input, given)
        IN  test' = [test EXCEPT !.filter = got.op,
                                 !.given = Some(given),
                                 !.output = Some(got.output),
                                 !.r = got.r,
                                 !.calls = @ + 1]
    /\ UNCHANGED <<file, parallelism, scan, exec>>

NextFilter == FilterBatchStep

SpecFilter == InitFilter /\ [][NextFilter]_vars

\* C31: after a call of the Filter the output has the input's columns,
\* count and capacity, its selection vector lists, strictly increasing,
\* exactly the positions below the input's count at which the predicate is
\* Boolean true, the call returned NeedMoreInput, and an empty input gave
\* an empty output.
C31_FilterSelectsInPlace ==
    IsSome(test.output)
        => LET input == test.input
               output == test.output.v
               s == output.selection.v
           IN  /\ output.columns = input.columns
               /\ output.count = input.count
               /\ output.capacity = input.capacity
               /\ IsSome(output.selection)
               /\ \A i \in 1..(Len(s) - 1) : s[i] < s[i + 1]
               /\ {s[i] : i \in 1..Len(s)}
                    = {r \in 0..(input.count - 1) :
                          EvaluateExpression(test.filter.predicate, input, r)
                              = Some(VBoolean(TRUE))}
               /\ test.r = "NeedMoreInput"
               /\ input.count = 0 => ChunkIsEmpty(output) /\ s = <<>>

\* the Filter kept the first and the last of three rows, in a buffer that
\* held an earlier result
C31_Witness ==
    /\ IsSome(test.output)
    /\ test.calls = 2
    /\ test.given = Some(test.output.v)
    /\ test.input.count = 3
    /\ test.output.v.selection = Some(<<0, 2>>)


(***************************************************************************)
(* SpecProject: PhysicalProjection::execute on batches of no row to        *)
(* MaxFilterRows rows, with or without a selection vector, under lists of  *)
(* ColumnRefs: one column, columns swapped, a column twice, a column the   *)
(* batch does not have.                                                    *)
(***************************************************************************)
ProjectLists ==
    {<<FilterColA>>, <<FilterColB>>, <<FilterColB, FilterColA>>, <<FilterColA, FilterColA>>,
     <<ColumnRef("z", 2, "Integer"), FilterColB>>}

InitProject ==
    /\ file = <<>>
    /\ parallelism = 1
    /\ scan = ScanNew(<<>>, None)
    /\ exec = [pc |-> "done"]
    /\ \E expressions \in ProjectLists, batch \in FilterBatches :
        \E selection \in SelectionVectors(batch.count) :
        test = [projection |-> [kind |-> "Projection", expressions |-> expressions],
                input |-> [batch EXCEPT !.selection = selection],
                output |-> None, r |-> "NotCalled"]

ProjectStep ==
    /\ test.output = None
    /\ LET got == ProjectionExecute(test.projection, test.input,
                                    GetChunkWithSchema(<<"Integer">>))
       IN  test' = [test EXCEPT !.output = Some(got.output), !.r = got.r]
    /\ UNCHANGED <<file, parallelism, scan, exec>>

NextProject == ProjectStep

SpecProject == InitProject /\ [][NextProject]_vars

\* the value the input holds in column index at its logical row j (from 0):
\* the physical row is the j-th entry of the selection vector if there is one
InputValue(input, index, j) ==
    LET row == IF IsSome(input.selection) THEN input.selection.v[j + 1] ELSE j
    IN  IF index >= Len(input.columns) THEN VNull
        ELSE LET vec == input.columns[index + 1]
             IN  IF IsValid(vec.validity, row)
                 THEN [t |-> vec.ty, v |-> vec.data[row + 1]]
                 ELSE VNull

\* C32: the output of the Projection has count = capacity = the input's
\* selected count and no selection vector; its column i holds one value per
\* logical row of the input, the value of the column expression i names (NULL
\* where the batch has no such column), read through the selection vector,
\* so that no row left out by the selection appears.
C32_ProjectionMaterializes ==
    IsSome(test.output)
        => LET input == test.input
               output == test.output.v
               expressions == test.projection.expressions
               row_count == SelectedCount(input)
           IN  /\ output.count = row_count
               /\ output.capacity = row_count
               /\ output.selection = None
               /\ Len(output.columns) = Len(expressions)
               /\ \A i \in 1..Len(expressions) :
                    /\ VectorLen(output.columns[i]) = row_count
                    /\ \A j \in 0..(row_count - 1) :
                        VectorGet(output.columns[i], j)
                            = Some(InputValue(input, expressions[i].index, j))
               /\ test.r = "NeedMoreInput"

\* two columns were swapped in a batch whose selection vector keeps the
\* last of three different rows
C32_Witness ==
    /\ IsSome(test.output)
    /\ test.projection.expressions = <<FilterColB, FilterColA>>
    /\ test.input.selection = Some(<<2>>)
    /\ test.output.v.count = 1
    /\ ChunkRows(test.output.v) = <<<<VBoolean(TRUE), VInteger(1)>>>>
    /\ ChunkRows([test.input EXCEPT !.selection = None])[1] = <<VInteger(0), VNull>>


(***************************************************************************)
(* SpecSelection: DataChunk::apply_offset and DataChunk::truncate called   *)
(* one after the other on a batch of numbered rows, with or without a      *)
(* selection vector.  test.before is the batch as it was before the last   *)
(* call, test.chunk the batch after it, test.op and test.n the call.       *)
(***************************************************************************)
MaxSelectionRows == 3
MaxSelectionCalls == 2

InitSelection ==
    /\ file = <<>>
    /\ parallelism = 1
    /\ scan = ScanNew(<<>>, None)
    /\ exec = [pc |-> "done"]
    /\ \E count \in 0..MaxSelectionRows : \E selection \in SelectionVectors(count) :
        test = [chunk |-> NumberedBatch(1, count, selection),
                before |-> None, op |-> "none", n |-> 0, calls |-> 0]

ApplyOffsetStep ==
    /\ test.calls < MaxSelectionCalls
    /\ \E n \in 0..(MaxSelectionRows + 1) :
        test' = [chunk |-> ApplyOffset(test.chunk, n), before |-> Some(test.chunk),
                 op |-> "apply_offset", n |-> n, calls |-> test.calls + 1]
    /\ UNCHANGED <<file, parallelism, scan, exec>>

TruncateStep ==
    /\ test.calls < MaxSelectionCalls
    /\ \E n \in 0..(MaxSelectionRows + 1) :
        test' = [chunk |-> Truncate(test.chunk, n), before |-> Some(test.chunk),
                 op |-> "truncate", n |-> n, calls |-> test.calls + 1]
    /\ UNCHANGED <<file, parallelism, scan, exec>>

NextSelection ==
    \/ ApplyOffsetStep
    \/ TruncateStep

SpecSelection == InitSelection /\ [][NextSelection]_vars

\* C33: apply_offset(n) and truncate(n) leave columns, count and capacity as
\* they were; the logical rows afterwards are the old logical rows from
\* position n on (none when n is at or over their number), respectively the
\* first min(n, their number) of them, in the old order, with or without a
\* selection vector before the call.
C33_OffsetTruncateSelectionOnly ==
    IsSome(test.before)
        => LET old == test.before.v
               new == test.chunk
               rows == RowNumbers(old)
           IN  /\ new.columns = old.columns
               /\ new.count = old.count
               /\ new.capacity = old.capacity
               /\ test.op = "apply_offset"
                    => RowNumbers(new) = SubSeq(rows, test.n + 1, Len(rows))
               /\ test.op = "truncate"
                    => RowNumbers(new) = SubSeq(rows, 1, Min(test.n, Len(rows)))

\* an offset of one was applied to a batch whose selection vector named
\* the first and the last of three rows
C33_Witness ==
    /\ test.before = Some(NumberedBatch(1, 3, Some(<<0, 2>>)))
    /\ test.op = "apply_offset"
    /\ test.n = 1
    /\ RowNumbers(test.chunk) = <<3>>


(***************************************************************************)
(* SpecBitmap: a Bitmap under sequences of its operations.  test.bitmap is *)
(* the bitmap, test.before the bitmap before the last call, test.op the    *)
(* call.  Indices given to set_null and set_valid are below len.           *)
(***************************************************************************)
MaxBits == 5
MaxBitmapCalls == 3

InitBitmap ==
    /\ file = <<>>
    /\ parallelism = 1
    /\ scan = ScanNew(<<>>, None)
    /\ exec = [pc |-> "done"]
    /\ \E len \in 0..MaxBits : \E bm \in {BitmapNew(len), BitmapNewAllNull(len)} :
        test = [bitmap |-> bm, before |-> bm, op |-> "new", calls |-> 0]

BitmapCalled(op, bm) ==
    [bitmap |-> bm, before |-> test.bitmap, op |-> op, calls |-> test.calls + 1]

SetNullStep ==
    /\ test.calls < MaxBitmapCalls
    /\ \E index \in 0..(test.bitmap.len - 1) :
        test' = BitmapCalled("set_null", SetNull(test.bitmap, index))
    /\ UNCHANGED <<file, parallelism, scan, exec>>

SetValidStep ==
    /\ test.calls < MaxBitmapCalls
    /\ \E index \in 0..(test.bitmap.len - 1) :
        test' = BitmapCalled("set_valid", SetValid(test.bitmap, index))
    /\ UNCHANGED <<file, parallelism, scan, exec>>

ClearStep ==
    /\ test.calls < MaxBitmapCalls
    /\ test' = BitmapCalled("clear", BitmapClear(test.bitmap))
    /\ UNCHANGED <<file, parallelism, scan, exec>>

ResizeStep ==
    /\ test.calls < MaxBitmapCalls
    /\ \E new_len \in 0..MaxBits :
        test' = BitmapCalled("resize", BitmapResize(test.bitmap, new_len))
    /\ UNCHANGED <<file, parallelism, scan, exec>>

NextBitmap ==
    \/ SetNullStep
    \/ SetValidStep
    \/ ClearStep
    \/ ResizeStep

SpecBitmap == InitBitmap /\ [][NextBitmap]_vars

\* C34: a resize that grows the bitmap from len to new_len leaves the bits
\* below len as they were and makes every bit of [len, new_len) valid,
\* whatever calls of new, new_all_null, set_null, clear and resize came
\* before.
C34_ResizeExposesValidBits ==
    (test.op = "resize" /\ test.bitmap.len > test.before.len)
        => /\ \A i \in 0..(test.before.len - 1) :
                IsValid(test.bitmap, i) = IsValid(test.before, i)
           /\ \A i \in test.before.len..(test.bitmap.len - 1) : IsValid(test.bitmap, i)


(***************************************************************************)
(* The runs of SpecExec again: the order in which the rows are returned.   *)
(***************************************************************************)
\* the numbers of a set in ascending order
RECURSIVE Ascending(_)
Ascending(S) ==
    IF S = {} THEN <<>>
    ELSE LET least == CHOOSE i \in S : \A j \in S : i <= j
         IN  <<least>> \o Ascending(S \ {least})

\* the rows a query without aggregate, LIMIT and OFFSET returns for the
\* file, in the order of the file's lines
RowsInFileOrder(q) ==
    LET lines == Ascending(PassingLines(q))
    IN  [k \in 1..Len(lines) |->
            LET row == ParseRow(file[lines[k]].fields, q.schema)
            IN  [c \in 1..Len(q.select_columns) |-> row[q.select_columns[c].index + 1]]]

\* the scan has one worker, and the pipeline is Scan -> [Filter] -> Projection
SingleProducer ==
    /\ IsSome(test.query)
    /\ Q.aggregates = <<>>
    /\ ~HasLimit(Q)
    /\ Len(scan.workers) = 1

\* C35: with a single worker feeding the channel, the rows of a
\* Scan -> [Filter] -> Projection query are collected in the order of the
\* file's lines: at every moment the result is the beginning of the rows
\* in file order, and all of them once execute has returned.
C35_SingleProducerFileOrder ==
    SingleProducer
        => LET rows == RowsInFileOrder(Q)
           IN  /\ Len(Delivered) <= Len(rows)
               /\ Delivered = SubSeq(rows, 1, Len(Delivered))
               /\ exec.pc = "done" => Delivered = rows

\* a filtered query has returned the rows of a file of several batches
C35_Witness ==
    /\ SingleProducer
    /\ exec.pc = "done"
    /\ IsSome(Q.where_clause)
    /\ Len(exec.results) >= 3
    /\ Delivered = RowsInFileOrder(Q)
    /\ Len(Delivered) > Len(exec.results)


\* the pipeline ends with Aggregate -> Limit
AggregateUnderLimit ==
    /\ IsSome(test.query)
    /\ Q.aggregates # <<>>
    /\ HasLimit(Q)
    /\ Len(exec.operators) >= 3
    /\ exec.operators[Len(exec.operators)].kind = "Limit"
    /\ exec.operators[Len(exec.operators) - 1].kind = "Aggregate"

\* LIMIT and OFFSET of the query let the first row through
FirstRowKept(q) ==
    /\ IsSome(q.limit) => q.limit.v >= 1
    /\ IsSome(q.offset) => q.offset.v = 0

\* C36: in a pipeline that ends with Aggregate -> Limit, the Limit returns
\* Finished in every iteration in which the Aggregate left its output
\* empty, and still handles the aggregate's row in the finalization pass:
\* once execute has returned, the result is one batch of that one row when
\* the limit is absent or at least 1 and the offset is 0, and holds no row
\* when the limit is 0 or the offset at least 1.
C36_LimitOverAggregate ==
    /\ [][(Push /\ AggregateUnderLimit)
            => LET n == Len(exec.operators)
               IN  ChunkIsEmpty(PushThrough(exec, 2).buffers[n - 1])
                        => exec'.returned[n] = "Finished"]_vars
    /\ [](AggregateUnderLimit /\ exec.pc = "done"
            => IF FirstRowKept(Q)
               THEN /\ Len(exec.results) = 1
                    /\ Len(Delivered) = 1
                    /\ Len(Delivered[1]) = Len(Q.aggregates)
                    /\ Q.aggregates[1] = CountStar
                            => Delivered[1][1] = VInteger(Cardinality(PassingLines(Q)))
               ELSE Delivered = <<>>)

\* COUNT(*) ... LIMIT 1 has returned its row after iterations in which the
\* Limit returned Finished on an empty input
C36_Witness ==
    /\ AggregateUnderLimit
    /\ exec.pc = "done"
    /\ Q.limit = Some(1)
    /\ Q.offset = None
    /\ Cardinality(PassingLines(Q)) >= 3
    /\ Delivered = <<<<VInteger(Cardinality(PassingLines(Q)))>>>>
    /\ exec.operators[Len(exec.operators)].rows_emitted = 1

\* COUNT(*) ... LIMIT 0 has returned no row
C36_WitnessLimitZero ==
    /\ AggregateUnderLimit
    /\ exec.pc = "done"
    /\ Q.limit = Some(0)
    /\ Delivered = <<>>


(***************************************************************************)
(* SpecTerminate: PipelineExecutor::execute on the pipelines the planner   *)
(* builds for a few queries, before and after optimization, with its loop  *)
(* iterations counted.  test.iterations is the number of iterations begun, *)
(* test.batches the number of non-empty batches the source has produced.   *)
(* Every thread goes on being scheduled.                                   *)
(***************************************************************************)
MaxTerminateRows == 3
MaxTerminateWorkers == 2
MaxIterations == 6

TerminateFiles ==
    {<<TableHeader>> \o [i \in 1..n |-> TableLine(i, Cell("int", 1))] :
        n \in 0..MaxTerminateRows}

TerminateQueries ==
    {[select_columns |-> <<ColId>>, schema |-> TableSchema, where_clause |-> w,
      limit |-> l, offset |-> None, aggregates |-> aggs] :
        w \in {None, Some(Binary("GreaterThan", RefA, LInteger(0)))},
        l \in {None, Some(1)}, aggs \in {<<>>, <<CountStar>>}}

TerminatePlans ==
    {Plan(q) : q \in TerminateQueries} \cup {Optimize(Plan(q)) : q \in TerminateQueries}

InitTerminate ==
    /\ file \in TerminateFiles
    /\ parallelism \in 1..MaxTerminateWorkers
    /\ \E plan \in TerminatePlans :
        /\ scan = StartRun(plan).scan
        /\ exec = StartRun(plan).exec
    /\ test = [iterations |-> 0, batches |-> 0]

\* the top of the loop of execute
LoopTop ==
    /\ exec.pc = "loop"
    /\ test.iterations < MaxIterations
    /\ exec' = ExecuteGetBuffers(exec)
    /\ test' = [test EXCEPT !.iterations = @ + 1]
    /\ UNCHANGED <<file, parallelism, scan>>

\* operators[0].execute returns, and the emptiness check follows
SourceReturns ==
    /\ exec.pc = "source"
    /\ ~ScanMustSpawn(scan)
    /\ ScanCanReturn(scan)
    /\ LET got == ScanExecute(scan, file, exec.buffers[1])
       IN  /\ scan' = got.scan
           /\ exec' = ExecuteSourceDone(exec, got.output, got.r)
           /\ test' = [test EXCEPT !.batches = @ + (IF ChunkIsEmpty(got.output) THEN 0 ELSE 1)]
    /\ UNCHANGED <<file, parallelism>>

NextTerminate ==
    \/ Spawn
    \/ LoopTop
    \/ SourceReturns
    \/ Push
    \/ WorkerStartStep
    \/ WorkerCheckStep
    \/ WorkerReadStep
    \/ WorkerFlushStep

SpecTerminate == InitTerminate /\ [][NextTerminate]_vars

\* what the workers have left to do at most, all together
RECURSIVE WorkersRank(_, _, _)
WorkersRank(sc, f, k) ==
    IF k = 0 THEN 0 ELSE WorkerRank(sc, f, k) + WorkersRank(sc, f, k - 1)

\* what the run has left to do at most: the batches the file can still
\* give, the end of the stream, the executor's place in its iteration, and
\* the workers' work
TerminateRank ==
    LET left == (Len(file) - 1) - test.batches
        place == CASE exec.pc = "push" -> 6
                   [] exec.pc = "loop" -> 4
                   [] exec.pc = "source" -> IF ScanMustSpawn(scan) THEN 3 ELSE 2
                   [] OTHER -> 0
        work == IF scan.receiver
                THEN WorkersRank(scan, file, Len(scan.workers))
                ELSE MaxTerminateWorkers * (4 * FileSize(file) + 5)
    IN  16 * left + (IF exec.source_finished THEN 0 ELSE 8) + place + work

\* execute has returned, or one of the threads can take its next step: the
\* executor is held up only inside a receive, on an open and empty channel
SomeThreadRuns ==
    \/ exec.pc = "done"
    \/ exec.pc = "push"
    \/ exec.pc = "loop" /\ test.iterations < MaxIterations
    \/ exec.pc = "source" /\ (ScanMustSpawn(scan) \/ ScanCanReturn(scan))
    \/ ENABLED WorkerStep

\* C37: execute returns: until it has, some thread can step, and every step
\* of every thread brings the run nearer to its end, so no run goes on for
\* ever.  The source ends with an empty batch and Finished, the loop is left
\* in the iteration in which that batch came, and the iterations number at
\* most the non-empty batches of the source plus one.
C37_ExecuteTerminates ==
    /\ [](SomeThreadRuns /\ TerminateRank >= 0)
    /\ [][TerminateRank' < TerminateRank]_vars
    /\ [](test.iterations <= test.batches + 1)
    /\ [](exec.pc = "loop" => test.iterations = test.batches)
    /\ []((exec.pc = "push" /\ ChunkIsEmpty(exec.buffers[1]))
            => exec.result = "Finished" /\ ExecutePush(exec).pc = "done")
    /\ [](exec.pc = "done" => exec.result = "Finished")

\* execute has returned after three iterations, the batches having come
\* from two workers
C37_Witness ==
    /\ exec.pc = "done"
    /\ Len(scan.workers) = 2
    /\ test.batches = 2
    /\ test.iterations = 3


(***************************************************************************)
(* The shared row counter of the parallel scan, on SpecCap.                *)
(***************************************************************************)
RECURSIVE ChunkCounts(_)
ChunkCounts(chunks) ==
    IF chunks = <<>> THEN 0 ELSE Head(chunks).count + ChunkCounts(Tail(chunks))

\* the rows the workers have appended so far: those still in the workers'
\* batches, those queued in the channel, and those the executor has received
RowsAppended ==
    ChunkCounts([k \in 1..Len(scan.workers) |-> scan.workers[k].chunk])
        + ChunkCounts(scan.channel)
        + (IF exec.pc = "push" THEN exec.buffers[1].count ELSE 0)
        + Len(Delivered)

\* C38: with N workers sharing the row counter, the counter equals the
\* number of rows the workers have appended, in every state and so at the
\* end, and it never exceeds max_rows + N - 1.
C38_CounterBound ==
    (scan.receiver /\ IsSome(scan.max_rows))
        => /\ scan.rows_counter = RowsAppended
           /\ scan.rows_counter <= scan.max_rows.v + Len(scan.workers) - 1

\* both workers have exited and the counter stands at max_rows + N - 1: one
\* worker's row was in flight when the other brought the counter to max_rows
C38_Witness ==
    /\ scan.receiver
    /\ IsSome(scan.max_rows)
    /\ Len(scan.workers) = 2
    /\ AllWorkersDone(scan)
    /\ scan.rows_counter = scan.max_rows.v + 1
    /\ RowsAppended = scan.max_rows.v + 1


(***************************************************************************)
(* SpecOptimizeTwice: Optimizer::optimize called on a plan of the planner, *)
(* and called again on the plan it returned.                               *)
(***************************************************************************)
MaxOptimizeCalls == 2

InitOptimizeTwice ==
    /\ file = <<>>
    /\ parallelism = 1
    /\ scan = ScanNew(<<>>, None)
    /\ exec = [pc |-> "done"]
    /\ \E q \in OptQueries :
        test = [query |-> q, calls |-> 0, input |-> Plan(q), optimized |-> Plan(q)]

\* optimize, on what the call before returned
OptimizeCall ==
    /\ test.calls < MaxOptimizeCalls
    /\ test' = [test EXCEPT !.calls = @ + 1,
                            !.input = test.optimized,
                            !.optimized = Optimize(test.optimized)]
    /\ UNCHANGED <<file, parallelism, scan, exec>>

NextOptimizeTwice == OptimizeCall

SpecOptimizeTwice == InitOptimizeTwice /\ [][NextOptimizeTwice]_vars

\* C39: optimize is idempotent: applied to a plan it has returned, it
\* returns that plan, with the same Get columns, the same ColumnRef and Count
\* indices and the same max_rows.
C39_OptimizeIdempotent ==
    test.calls = 2 => test.optimized = test.input


=============================================================================
